---- MODULE Spec2Model ----
(***************************************************************************)
(* Card sorter of the ticket card printer: the deterministic rule chain    *)
(* (cardSorting.ts), the AI merge layer (aiSorting.ts) and the card        *)
(* designer's AI analysis state machine (CardDesigner.tsx, PrintView.tsx). *)
(*                                                                         *)
(* Field values are JavaScript scalars: null/undefined, a string (a        *)
(* sequence of one-character strings) or a number.                         *)
(***************************************************************************)
EXTENDS Integers, Sequences, FiniteSets, TLC

\* ------------------------------------------------------------------------
\* Scalar values of a TicketRow field (types/index.ts: string | number |
\* null | undefined)
\* ------------------------------------------------------------------------
NullV == [t |-> "null", s |-> <<>>, n |-> 0]
StrV(chars) == [t |-> "str", s |-> chars, n |-> 0]
NumV(k) == [t |-> "num", s |-> <<>>, n |-> k]

\* a JSON object or array held where a scalar is expected
ObjV == [t |-> "obj", s |-> <<>>, n |-> 0]

Digits == <<"0", "1", "2", "3", "4", "5", "6", "7", "8", "9">>

IsDigit(c) == \E i \in 1..10 : Digits[i] = c

DigitVal(c) == (CHOOSE i \in 1..10 : Digits[i] = c) - 1

IsUpper(c) == c \in {"A", "B", "C", "O", "Z"}

IsLower(c) == c \in {"a", "b", "c", "o", "z"}

IsSpace(c) == c = " "

\* decimal digits of a natural number, as String(n) prints them
RECURSIVE NatToStr(_)
NatToStr(k) ==
  IF k < 10 THEN <<Digits[k + 1]>>
  ELSE NatToStr(k \div 10) \o <<Digits[(k % 10) + 1]>>

\* String(value) for a non-null scalar
String(v) ==
  CASE v.t = "str" -> v.s
    [] v.t = "num" -> IF v.n < 0 THEN <<"-">> \o NatToStr(0 - v.n) ELSE NatToStr(v.n)
    [] v.t = "obj" -> <<"[", "o", "b", "j", "e", "c", "t", " ", "O", "b", "j", "e", "c", "t", "]">>
    [] OTHER -> <<"n", "u", "l", "l">>

\* JavaScript truthiness of a scalar: null, undefined, "" and 0 are falsy
Truthy(v) ==
  CASE v.t = "null" -> FALSE
    [] v.t = "str" -> v.s # <<>>
    [] v.t = "obj" -> TRUE
    [] OTHER -> v.n # 0

\* String(value || '')
StringOrEmpty(v) == IF Truthy(v) THEN String(v) ELSE <<>>

\* ------------------------------------------------------------------------
\* extractIssueKeys: all non-overlapping matches of /[A-Z]+-\d+/g, left to
\* right, from a fresh regex instance
\* ------------------------------------------------------------------------
DefaultPatternSource == "[A-Z]+-\\d+"

RECURSIVE RunEnd(_, _, _)
\* first position >= i whose character is not in the class (Len+1 if none)
RunEnd(s, i, digit) ==
  IF i > Len(s) THEN i
  ELSE IF (IF digit THEN IsDigit(s[i]) ELSE IsUpper(s[i])) THEN RunEnd(s, i + 1, digit)
  ELSE i

\* end (exclusive) of the match of [A-Z]+-\d+ starting exactly at p, 0 if none
MatchAt(s, p) ==
  IF ~IsUpper(s[p]) THEN 0
  ELSE LET j == RunEnd(s, p, FALSE)
       IN IF j + 1 <= Len(s) /\ s[j] = "-" /\ IsDigit(s[j + 1])
          THEN RunEnd(s, j + 1, TRUE)
          ELSE 0

RECURSIVE MatchAll(_, _)
MatchAll(s, p) ==
  IF p > Len(s) THEN <<>>
  ELSE LET e == MatchAt(s, p)
       IN IF e > 0 THEN <<SubSeq(s, p, e - 1)>> \o MatchAll(s, e)
          ELSE MatchAll(s, p + 1)

\* the source of new RegExp(''): it matches the empty string everywhere
EmptyPatternSource == "(?:)"

extractIssueKeys(value, pattern) ==
  IF value.t = "null" THEN <<>>
  ELSE IF pattern.source = DefaultPatternSource THEN MatchAll(String(value), 1)
  ELSE IF pattern.source = EmptyPatternSource
    THEN [i \in 1..(Len(String(value)) + 1) |-> <<>>]
  ELSE <<>>

\* ------------------------------------------------------------------------
\* String.prototype.localeCompare over the model's alphabet (root
\* collation: white space < punctuation < digits < letters; a letter and
\* its capital differ only at the third level, lower case first)
\* ------------------------------------------------------------------------
CollationOrder ==
  <<" ", "-", "[", "]", "0", "1", "2", "3", "4", "5", "6", "7", "8", "9",
    "a", "b", "c", "d", "e", "f", "g", "i", "j", "k", "l", "n", "o", "p", "r", "s", "t",
    "u", "z">>

ToLower(c) ==
  CASE c = "A" -> "a" [] c = "B" -> "b" [] c = "C" -> "c" [] c = "O" -> "o"
    [] c = "Z" -> "z" [] OTHER -> c

PrimaryRank(c) == CHOOSE i \in 1..Len(CollationOrder) : CollationOrder[i] = ToLower(c)

Sign(k) == IF k < 0 THEN -1 ELSE IF k > 0 THEN 1 ELSE 0

RECURSIVE DigitRunValue(_, _, _)
\* value of the digit run s[i..j-1]
DigitRunValue(s, i, j) ==
  IF i >= j THEN 0 ELSE DigitRunValue(s, i, j - 1) * 10 + DigitVal(s[j - 1])

RECURSIVE PrimaryCompare(_, _, _, _, _)
\* first-level comparison of a[i..] with b[j..]; with numeric = TRUE a run
\* of digits is compared as one number
PrimaryCompare(a, b, i, j, numeric) ==
  IF i > Len(a) /\ j > Len(b) THEN 0
  ELSE IF i > Len(a) THEN -1
  ELSE IF j > Len(b) THEN 1
  ELSE IF numeric /\ IsDigit(a[i]) /\ IsDigit(b[j])
    THEN LET ie == RunEnd(a, i, TRUE)
             je == RunEnd(b, j, TRUE)
             d == Sign(DigitRunValue(a, i, ie) - DigitRunValue(b, j, je))
         IN IF d # 0 THEN d ELSE PrimaryCompare(a, b, ie, je, numeric)
  ELSE LET d == Sign(PrimaryRank(a[i]) - PrimaryRank(b[j]))
       IN IF d # 0 THEN d ELSE PrimaryCompare(a, b, i + 1, j + 1, numeric)

RECURSIVE CaseCompare(_, _, _)
\* third-level comparison of two strings that are equal at the first level
CaseCompare(a, b, i) ==
  IF i > Len(a) \/ i > Len(b) THEN 0
  ELSE IF a[i] = b[i] THEN CaseCompare(a, b, i + 1)
  ELSE IF IsLower(a[i]) THEN -1 ELSE 1

\* a.localeCompare(b): the default options
localeCompare(a, b) ==
  LET d == PrimaryCompare(a, b, 1, 1, FALSE)
  IN IF d # 0 THEN d ELSE CaseCompare(a, b, 1)

\* a.localeCompare(b, undefined, { numeric: true, sensitivity: 'base' })
localeCompareNatural(a, b) == PrimaryCompare(a, b, 1, 1, TRUE)

\* parseFloat(String(v)) over the model's alphabet (no '.', no exponent):
\* leading white space, an optional '-', then a run of digits
parseFloat(s) ==
  LET RECURSIVE SkipSpace(_)
      SkipSpace(i) == IF i <= Len(s) /\ IsSpace(s[i]) THEN SkipSpace(i + 1) ELSE i
      p == SkipSpace(1)
      neg == p <= Len(s) /\ s[p] = "-"
      q == IF neg THEN p + 1 ELSE p
      e == RunEnd(s, q, TRUE)
  IN IF e = q THEN [nan |-> TRUE, v |-> 0]
     ELSE [nan |-> FALSE,
           v |-> IF neg THEN 0 - DigitRunValue(s, q, e) ELSE DigitRunValue(s, q, e)]

\* ------------------------------------------------------------------------
\* Array.prototype.sort with a comparator: stable
\* ------------------------------------------------------------------------
\* x goes after every element of the sorted prefix that does not compare
\* greater than it
StableSort(xs, Cmp(_, _)) ==
  LET RECURSIVE InsertStable(_, _, _)
      InsertStable(x, sorted, i) ==
        IF i > Len(sorted) THEN Append(sorted, x)
        ELSE IF Cmp(sorted[i], x) > 0
          THEN SubSeq(sorted, 1, i - 1) \o <<x>> \o SubSeq(sorted, i, Len(sorted))
        ELSE InsertStable(x, sorted, i + 1)
      RECURSIVE SortFrom(_, _)
      SortFrom(k, acc) ==
        IF k > Len(xs) THEN acc
        ELSE SortFrom(k + 1, InsertStable(xs[k], acc, 1))
  IN SortFrom(1, <<>>)

\* ------------------------------------------------------------------------
\* cardSorting.ts
\* ------------------------------------------------------------------------
\* row[field]: undefined when the row has no such field
Field(row, f) == IF f \in DOMAIN row THEN row[f] ELSE NullV

\* a SortedCardResult; an optional property that is not set is NullV
SortedCardResult(row, originalIndex, groupId, groupSize) ==
  [row |-> row, originalIndex |-> originalIndex, groupId |-> groupId,
   groupSize |-> groupSize, aiGroupId |-> NullV, aiSimilarity |-> NullV]

\* the comparator with the direction applied to the null checks too
SimpleCompare_DirectionOnNulls(a, b, config) ==
  LET aVal == Field(a.row, config.field)
      bVal == Field(b.row, config.field)
      comparison ==
        IF aVal.t = "null" /\ bVal.t = "null" THEN 0
        ELSE IF aVal.t = "null" THEN 1
        ELSE IF bVal.t = "null" THEN -1
        ELSE IF config.numeric
          THEN IF parseFloat(String(aVal)).nan \/ parseFloat(String(bVal)).nan
               THEN localeCompare(String(aVal), String(bVal))
               ELSE parseFloat(String(aVal)).v - parseFloat(String(bVal)).v
        ELSE localeCompareNatural(String(aVal), String(bVal))
  IN IF config.direction = "asc" THEN comparison ELSE 0 - comparison

\* the comparator of applySortSimple
SimpleCompare(a, b, config) ==
  LET aVal == Field(a.row, config.field)
      bVal == Field(b.row, config.field)
  IN IF aVal.t = "null" /\ bVal.t = "null" THEN 0
     ELSE IF aVal.t = "null" THEN 1
     ELSE IF bVal.t = "null" THEN -1
     ELSE LET aNum == parseFloat(String(aVal))
              bNum == parseFloat(String(bVal))
              comparison ==
                IF config.numeric
                THEN IF aNum.nan \/ bNum.nan
                     THEN localeCompare(String(aVal), String(bVal))
                     ELSE aNum.v - bNum.v
                ELSE localeCompareNatural(String(aVal), String(bVal))
          IN IF config.direction = "asc" THEN comparison ELSE 0 - comparison

\* a sort that is not stable: equal elements end up in reverse order
applySortSimple_TiesReversed(results, config) ==
  LET Cmp(a, b) == SimpleCompare(a, b, config)
  IN StableSort([i \in 1..Len(results) |-> results[Len(results) + 1 - i]], Cmp)

applySortSimple(results, config) ==
  LET Cmp(a, b) == SimpleCompare(a, b, config)
  IN StableSort(results, Cmp)

\* recursion depth at which the JavaScript engine would overflow its stack
MaxCallDepth == 12

\* a Map whose set leaves the value of a key that is already present
MapSet_KeepFirst(graph, node) ==
  IF \E i \in 1..Len(graph) : graph[i].issueKey = node.issueKey
  THEN graph
  ELSE Append(graph, node)

\* graph.set(key, node): a Map keeps the position of a key that is already
\* present and replaces its value
MapSet(graph, node) ==
  IF \E i \in 1..Len(graph) : graph[i].issueKey = node.issueKey
  THEN [i \in 1..Len(graph) |->
          IF graph[i].issueKey = node.issueKey THEN node ELSE graph[i]]
  ELSE Append(graph, node)

MapHas(graph, key) == \E i \in 1..Len(graph) : graph[i].issueKey = key

MapGet(graph, key) == graph[CHOOSE i \in 1..Len(graph) : graph[i].issueKey = key]

SeqToSet(xs) == {xs[i] : i \in 1..Len(xs)}

RECURSIVE BuildGraph(_, _, _, _)
\* 1. Build graph: the Map of IssueGraphNode and the keys of inboundRefs
BuildGraph(results, config, i, acc) ==
  IF i > Len(results) THEN acc
  ELSE LET row == results[i].row
           primaryKeys == extractIssueKeys(Field(row, config.keyField), config.issueKeyPattern)
       IN IF Len(primaryKeys) = 0 THEN BuildGraph(results, config, i + 1, acc)
          ELSE LET primaryKey == primaryKeys[1]
                   linkedKeys == extractIssueKeys(Field(row, config.linkedIssuesField),
                                                  config.issueKeyPattern)
                   node == [issueKey |-> primaryKey, row |-> row,
                            originalIndex |-> results[i].originalIndex,
                            linkedKeys |-> linkedKeys]
               IN BuildGraph(results, config, i + 1,
                             [graph |-> MapSet(acc.graph, node),
                              inboundRefs |-> acc.inboundRefs \cup SeqToSet(linkedKeys)])

RECURSIVE dfs_NoVisitedCheck(_, _, _, _, _)
\* dfs without the visited check of its first line
dfs_NoVisitedCheck(graph, key, groupRootKey, depth, st) ==
  IF st.overflow THEN st
  ELSE IF depth > MaxCallDepth THEN [st EXCEPT !.overflow = TRUE]
  ELSE IF ~MapHas(graph, key) THEN [st EXCEPT !.calls = @ + 1]
  ELSE LET node == MapGet(graph, key)
           entered == [st EXCEPT !.calls = @ + 1,
                                 !.visited = @ \cup {key},
                                 !.group = Append(@, SortedCardResult(node.row,
                                              node.originalIndex, StrV(groupRootKey), NumV(0)))]
           RECURSIVE VisitLinked(_, _)
           VisitLinked(k, s) ==
             IF k > Len(node.linkedKeys) THEN s
             ELSE VisitLinked(k + 1,
                    dfs_NoVisitedCheck(graph, node.linkedKeys[k], groupRootKey, depth + 1, s))
       IN VisitLinked(1, entered)

RECURSIVE dfs(_, _, _, _, _)
\* 3. DFS traversal: st carries the visited set and the group being built
dfs(graph, key, groupRootKey, depth, st) ==
  IF st.overflow THEN st
  ELSE IF depth > MaxCallDepth THEN [st EXCEPT !.overflow = TRUE]
  ELSE IF key \in st.visited THEN [st EXCEPT !.calls = @ + 1]
  ELSE IF ~MapHas(graph, key) THEN [st EXCEPT !.calls = @ + 1]
  ELSE LET node == MapGet(graph, key)
           entered == [st EXCEPT !.calls = @ + 1,
                                 !.visited = @ \cup {key},
                                 !.group = Append(@, SortedCardResult(node.row,
                                              node.originalIndex, StrV(groupRootKey), NumV(0)))]
           RECURSIVE VisitLinked(_, _)
           VisitLinked(k, s) ==
             IF k > Len(node.linkedKeys) THEN s
             ELSE VisitLinked(k + 1, dfs(graph, node.linkedKeys[k], groupRootKey, depth + 1, s))
       IN VisitLinked(1, entered)

\* the comparator of config.sortWithinGroups
WithinGroupCompare(a, b, sortWithinGroups) ==
  LET aVal == Field(a.row, sortWithinGroups.field)
      bVal == Field(b.row, sortWithinGroups.field)
  IN IF aVal.t = "null" /\ bVal.t = "null" THEN 0
     ELSE IF aVal.t = "null" THEN 1
     ELSE IF bVal.t = "null" THEN -1
     ELSE LET comparison == localeCompareNatural(String(aVal), String(bVal))
          IN IF sortWithinGroups.direction = "asc" THEN comparison ELSE 0 - comparison

\* groupSize assigned while the group is being built, not once it is complete
FinishGroup_Incremental(group, config) ==
  LET sized == [i \in 1..Len(group) |-> [group[i] EXCEPT !.groupSize = NumV(i)]]
      Cmp(a, b) == WithinGroupCompare(a, b, config.sortWithinGroups)
  IN IF config.sortWithinGroups.present THEN StableSort(sized, Cmp) ELSE sized

\* a finished group: groupSize set on every card, then the optional sort
FinishGroup(group, config) ==
  LET sized == [i \in 1..Len(group) |-> [group[i] EXCEPT !.groupSize = NumV(Len(group))]]
      Cmp(a, b) == WithinGroupCompare(a, b, config.sortWithinGroups)
  IN IF config.sortWithinGroups.present THEN StableSort(sized, Cmp) ELSE sized

RECURSIVE ProcessKeys(_, _, _, _, _, _)
\* roots.forEach (skipVisited = FALSE) and the pass over graph.forEach for
\* circular groups (skipVisited = TRUE): one group per key
ProcessKeys(graph, config, keys, i, skipVisited, acc) ==
  IF i > Len(keys) THEN acc
  ELSE IF skipVisited /\ keys[i] \in acc.visited
    THEN ProcessKeys(graph, config, keys, i + 1, skipVisited, acc)
  ELSE LET st == dfs(graph, keys[i], keys[i], 1,
                     [visited |-> acc.visited, group |-> <<>>,
                      calls |-> acc.calls, overflow |-> acc.overflow])
           next == [visited |-> st.visited,
                    calls |-> st.calls,
                    overflow |-> st.overflow,
                    groups |-> IF Len(st.group) > 0
                               THEN Append(acc.groups, FinishGroup(st.group, config))
                               ELSE acc.groups]
       IN ProcessKeys(graph, config, keys, i + 1, skipVisited, next)

RECURSIVE Flat(_)
Flat(groups) == IF Len(groups) = 0 THEN <<>> ELSE Head(groups) \o Flat(Tail(groups))

\* the comparator of orphans.sort
OrphanCompare(a, b, config) ==
  localeCompare(StringOrEmpty(Field(a.row, config.keyField)),
                StringOrEmpty(Field(b.row, config.keyField)))

\* the roots in reverse graph order
Roots_LastFirst(graph, inboundRefs) ==
  LET IsRoot(node) == node.issueKey \notin inboundRefs
      rootNodes == SelectSeq(graph, IsRoot)
  IN [i \in 1..Len(rootNodes) |-> rootNodes[Len(rootNodes) + 1 - i].issueKey]

\* 2. Identify roots (not referenced by others), in graph order
Roots(graph, inboundRefs) ==
  LET IsRoot(node) == node.issueKey \notin inboundRefs
      rootNodes == SelectSeq(graph, IsRoot)
  IN [i \in 1..Len(rootNodes) |-> rootNodes[i].issueKey]

GraphKeys(graph) == [i \in 1..Len(graph) |-> graph[i].issueKey]

\* { row, originalIndex } of every element
AsOrphans(xs) ==
  [i \in 1..Len(xs) |-> SortedCardResult(xs[i].row, xs[i].originalIndex, NullV, NullV)]

\* 4. cards with issue keys but not connected
UnconnectedOrphans(graph, visited) ==
  LET Unvisited(node) == node.issueKey \notin visited
  IN AsOrphans(SelectSeq(graph, Unvisited))

\* 5. cards with no issue keys at all
KeylessOrphans(results, config) ==
  LET NoKey(result) ==
        Len(extractIssueKeys(Field(result.row, config.keyField), config.issueKeyPattern)) = 0
  IN AsOrphans(SelectSeq(results, NoKey))

\* orphans.sort
SortOrphans(orphans, config) ==
  LET Cmp(a, b) == OrphanCompare(a, b, config)
  IN StableSort(orphans, Cmp)

\* roots.forEach, then graph.forEach for the circular groups
Traverse(graph, inboundRefs, config) ==
  ProcessKeys(graph, config, GraphKeys(graph), 1, TRUE,
    ProcessKeys(graph, config, Roots(graph, inboundRefs), 1, FALSE,
                [visited |-> {}, calls |-> 0, overflow |-> FALSE, groups |-> <<>>]))

PartsOfTraversal(results, config, graph, traversal) ==
  [graph |-> graph, groups |-> traversal.groups,
   calls |-> traversal.calls, overflow |-> traversal.overflow,
   orphans |-> SortOrphans(UnconnectedOrphans(graph, traversal.visited)
                             \o KeylessOrphans(results, config), config)]

PartsOfGraph(results, config, built) ==
  PartsOfTraversal(results, config, built.graph,
                   Traverse(built.graph, built.inboundRefs, config))

\* the whole traversal: graph, groups and orphans before flattening
LinkedIssuesParts(results, config) ==
  PartsOfGraph(results, config,
               BuildGraph(results, config, 1, [graph |-> <<>>, inboundRefs |-> {}]))

FlatParts(parts) == Flat(parts.groups) \o parts.orphans

applySortLinkedIssues(results, config) ==
  FlatParts(LinkedIssuesParts(results, config))

\* one rule of the chain, as the loop body of applySorting applies it
ApplyRule(results, rule) ==
  IF rule.type = "simple" /\ rule.simple.present
    THEN applySortSimple(results, rule.simple)
  ELSE IF rule.type = "linked-issues" /\ rule.linkedIssues.present
    THEN applySortLinkedIssues(results, rule.linkedIssues)
  ELSE results

RECURSIVE ApplyRules_LastRuleFirst(_, _, _)
\* the chain applied from its last rule to its first
ApplyRules_LastRuleFirst(results, rules, i) ==
  IF i > Len(rules) THEN results
  ELSE ApplyRule(ApplyRules_LastRuleFirst(results, rules, i + 1), rules[i])

RECURSIVE ApplyRules(_, _, _)
\* for (const rule of config.rules): results is handed from rule to rule
ApplyRules(results, rules, i) ==
  IF i > Len(rules) THEN results
  ELSE ApplyRules(ApplyRule(results, rules[i]), rules, i + 1)

\* originalIndex counted from 1
Unsorted_OneBased(rows) == [i \in 1..Len(rows) |-> SortedCardResult(rows[i], i, NullV, NullV)]

\* rows.map((row, index) => ({ row, originalIndex: index }))
Unsorted(rows) == [i \in 1..Len(rows) |-> SortedCardResult(rows[i], i - 1, NullV, NullV)]

applySorting(rows, config) ==
  IF Len(rows) = 0 THEN <<>>
  ELSE IF Len(config.rules) = 0 THEN Unsorted(rows)
  ELSE ApplyRules(Unsorted(rows), config.rules, 1)

\* ------------------------------------------------------------------------
\* Inputs of the sort pipeline
\* ------------------------------------------------------------------------
MaxRows == 3
MaxRules == 2

KeyA == <<"A", "-", "1">>
KeyB == <<"B", "-", "2">>
KeyC == <<"C", "-", "3">>

\* rows whose key field holds an identifier, with a links field that is
\* absent, names one identifier or names two
GraphRows ==
  [Key : {StrV(KeyA), StrV(KeyB), StrV(KeyC)},
   Links : {NullV, StrV(KeyA), StrV(KeyB \o <<" ">> \o KeyC)}]

\* rows whose key field holds no identifier: the number 0 and two strings
KeylessRows ==
  [Key : {NumV(0), StrV(<<"-", "2">>), StrV(<<"-", "1", "0">>)}, Links : {NullV}]

RowPool == GraphRows \cup KeylessRows

RowLists == UNION {[1..n -> RowPool] : n \in 1..MaxRows}

\* the rows a rule chain is applied to
ChainRows ==
  {[Key |-> StrV(KeyA), Links |-> NullV],
   [Key |-> StrV(KeyB), Links |-> StrV(KeyA)],
   [Key |-> StrV(KeyB), Links |-> NullV],
   [Key |-> StrV(<<"-", "2">>), Links |-> StrV(KeyA)]}

ChainRowLists == UNION {[1..n -> ChainRows] : n \in 0..MaxRows}

\* the rows a single Simple rule on the field Key is applied to: the
\* strings "2", "10", "a" and "A", the number 2, null, and a row that has
\* no field Key
SimpleRows ==
  {[Key |-> StrV(<<"2">>)], [Key |-> StrV(<<"1", "0">>)], [Key |-> NumV(2)],
   [Key |-> StrV(<<"a">>)], [Key |-> StrV(<<"A">>)], [Key |-> NullV], [Links |-> NullV]}

SimpleRowLists == UNION {[1..n -> SimpleRows] : n \in 0..MaxRows}

NoSimple == [present |-> FALSE, field |-> "", direction |-> "asc", numeric |-> FALSE]

NoLinked ==
  [present |-> FALSE, keyField |-> "", linkedIssuesField |-> "",
   issueKeyPattern |-> [source |-> DefaultPatternSource, flags |-> "g"],
   sortWithinGroups |-> NoSimple]

SimpleRule(field, direction, numeric) ==
  [type |-> "simple",
   simple |-> [present |-> TRUE, field |-> field, direction |-> direction, numeric |-> numeric],
   linkedIssues |-> NoLinked]

LinkedRule(sortWithinGroups) ==
  [type |-> "linked-issues",
   simple |-> NoSimple,
   linkedIssues |-> [present |-> TRUE, keyField |-> "Key", linkedIssuesField |-> "Links",
                     issueKeyPattern |-> [source |-> DefaultPatternSource, flags |-> "g"],
                     sortWithinGroups |-> sortWithinGroups]]

SimpleRules ==
  {SimpleRule("Links", "asc", FALSE), SimpleRule("Key", "desc", TRUE)}

LinkedRules ==
  {LinkedRule(NoSimple),
   LinkedRule([present |-> TRUE, field |-> "Key", direction |-> "desc", numeric |-> FALSE])}

\* the rule chain under test
VARIABLES sortRows, sortRules, prevResults, sortResults

\* one call of applyAISorting
VARIABLES baseResults, refined, refineConfig, refineProvider, refineResponse, refineOutcome

\* the data store (rows, sortConfig, aiSortedResults), the AI store
\* (aiProvider), App (currentTab), CardDesigner (aiAnalysisState), the
\* calls of applyAISorting that have not returned (inflight), the number of
\* calls started (runs) and finished (finished), and the call that the
\* stored aiSortedResults came from (resultOrigin)
VARIABLES rows, sortConfig, aiSortedResults, aiProvider, currentTab, aiAnalysisState,
          inflight, runs, finished, resultOrigin

\* SortPanel: the calls of analyzeGroupingOpportunities that have not
\* returned, each with the config of the render whose handler started it
VARIABLES discovering

\* the template store (templates), the sort configuration each saveTemplate
\* call was given, by template id (savedSortConfigs), the value of the
\* last loadTemplate call (loadedTemplate), and the document of the last
\* exportAll call (exported)
VARIABLES templates, savedSortConfigs, loadedTemplate, exported

sortVars == <<sortRows, sortRules, prevResults, sortResults>>

aiVars ==
  <<baseResults, refined, refineConfig, refineProvider, refineResponse, refineOutcome>>

uiVars ==
  <<rows, sortConfig, aiSortedResults, aiProvider, currentTab, aiAnalysisState,
    inflight, runs, finished, resultOrigin, discovering>>

tplVars == <<templates, savedSortConfigs, loadedTemplate, exported>>

vars == <<sortVars, aiVars, uiVars, tplVars>>

\* no rule chain is under test
SortParked ==
  /\ sortRows = <<>>
  /\ sortRules = <<>>
  /\ prevResults = <<>>
  /\ sortResults = <<>>

\* applyAISorting is not called
AIParked ==
  /\ baseResults = <<>>
  /\ refined = FALSE
  /\ refineConfig = <<>>
  /\ refineProvider = FALSE
  /\ refineResponse = <<>>
  /\ refineOutcome = <<>>

\* the template store is not used
TplParked ==
  /\ templates = <<>>
  /\ savedSortConfigs = <<>>
  /\ loadedTemplate = <<>>
  /\ exported = <<>>

\* the application is not running
UIParked ==
  /\ rows = <<>>
  /\ sortConfig = <<>>
  /\ aiSortedResults = <<>>
  /\ aiProvider = FALSE
  /\ currentTab = ""
  /\ aiAnalysisState = <<>>
  /\ inflight = {}
  /\ runs = 0
  /\ finished = 0
  /\ resultOrigin = <<>>
  /\ discovering = {}

\* SortPanel.handleAddRule followed by applySorting with the longer chain;
\* prevResults keeps the output of the chain without the new rule
AddRule(rule) ==
  /\ sortRules' = Append(sortRules, rule)
  /\ prevResults' = sortResults
  /\ sortResults' = applySorting(sortRows, [rules |-> sortRules'])
  /\ UNCHANGED <<sortRows, aiVars, uiVars, tplVars>>

\* a record list has been imported; no rule is configured yet
SortInit ==
  /\ sortRows \in ChainRowLists
  /\ sortRules = <<>>
  /\ prevResults = <<>>
  /\ sortResults = applySorting(sortRows, [rules |-> <<>>])
  /\ AIParked
  /\ UIParked
  /\ TplParked

AddSimpleRule ==
  /\ Len(sortRules) < MaxRules
  /\ \E rule \in SimpleRules : AddRule(rule)

AddLinkedRule ==
  /\ Len(sortRules) < MaxRules
  /\ \E rule \in LinkedRules : AddRule(rule)

\* SortPanel, Clear All Sorting: onConfigChange({ rules: [] }) followed by
\* applySorting with the empty chain; prevResults keeps the output of the
\* chain that was cleared
ClearAllSorting ==
  /\ Len(sortRules) > 0
  /\ sortRules' = <<>>
  /\ prevResults' = sortResults
  /\ sortResults' = applySorting(sortRows, [rules |-> sortRules'])
  /\ UNCHANGED <<sortRows, aiVars, uiVars, tplVars>>

SortNext == AddSimpleRule \/ AddLinkedRule \/ ClearAllSorting

\* chains of Simple and LinkGroup rules over a record list
SortSpec == SortInit /\ [][SortNext]_vars

LinkInit ==
  /\ sortRows \in RowLists
  /\ sortRules = <<>>
  /\ prevResults = <<>>
  /\ sortResults = applySorting(sortRows, [rules |-> <<>>])
  /\ AIParked
  /\ UIParked
  /\ TplParked

\* the first rule of the chain is a LinkGroup rule
AddFirstLinkedRule ==
  /\ Len(sortRules) = 0
  /\ \E rule \in LinkedRules : AddRule(rule)

LinkNext == AddFirstLinkedRule

\* one LinkGroup rule over a record list with cycles, duplicate and
\* dangling identifiers and records without identifier
LinkSpec == LinkInit /\ [][LinkNext]_vars

SimpleInit ==
  /\ sortRows \in SimpleRowLists
  /\ sortRules = <<>>
  /\ prevResults = <<>>
  /\ sortResults = applySorting(sortRows, [rules |-> <<>>])
  /\ AIParked
  /\ UIParked
  /\ TplParked

\* SortPanel.handleAddRule('simple'): the first rule, on the first column,
\* ascending, not numeric
AddFirstSimpleRule ==
  /\ Len(sortRules) = 0
  /\ AddRule(SimpleRule("Key", "asc", FALSE))

\* SortPanel.handleUpdateRule on the direction or the numeric setting of the
\* only rule, followed by applySorting; prevResults is the input of the rule
handleUpdateRule ==
  /\ Len(sortRules) = 1
  /\ \E direction \in {"asc", "desc"}, numeric \in BOOLEAN :
       /\ (direction # sortRules[1].simple.direction) # (numeric # sortRules[1].simple.numeric)
       /\ sortRules' = <<SimpleRule(sortRules[1].simple.field, direction, numeric)>>
  /\ prevResults' = applySorting(sortRows, [rules |-> <<>>])
  /\ sortResults' = applySorting(sortRows, [rules |-> sortRules'])
  /\ UNCHANGED <<sortRows, aiVars, uiVars, tplVars>>

SimpleNext == AddFirstSimpleRule \/ handleUpdateRule

\* one Simple rule over a record list with ties and missing values
SimpleSpec == SimpleInit /\ [][SimpleNext]_vars

\* rows with a column Points next to the identifier columns: A-1 names B-2
\* and C-3; the points are the strings "-2" and "-10", the number 2 or absent
WithinRows ==
  {[Key |-> StrV(KeyA), Links |-> StrV(KeyB \o <<" ">> \o KeyC), Points |-> StrV(<<"-", "2">>)],
   [Key |-> StrV(KeyB), Links |-> NullV, Points |-> StrV(<<"-", "1", "0">>)],
   [Key |-> StrV(KeyB), Links |-> NullV, Points |-> NumV(2)],
   [Key |-> StrV(KeyC), Links |-> NullV, Points |-> NullV],
   [Key |-> StrV(KeyC), Links |-> StrV(KeyA), Points |-> StrV(<<"2">>)]}

WithinRowLists == UNION {[1..n -> WithinRows] : n \in 1..MaxRows}

\* the sortWithinGroups settings of the panel on the column Points
WithinGroupRules ==
  {LinkedRule([present |-> TRUE, field |-> "Points", direction |-> direction,
               numeric |-> numeric]) :
     direction \in {"asc", "desc"}, numeric \in BOOLEAN}

WithinInit ==
  /\ sortRows \in WithinRowLists
  /\ sortRules = <<>>
  /\ prevResults = <<>>
  /\ sortResults = applySorting(sortRows, [rules |-> <<>>])
  /\ AIParked
  /\ UIParked
  /\ TplParked

\* the first rule of the chain is a LinkGroup rule with sortWithinGroups
AddWithinGroupRule ==
  /\ Len(sortRules) = 0
  /\ \E rule \in WithinGroupRules : AddRule(rule)

WithinNext == AddWithinGroupRule

\* one LinkGroup rule with sortWithinGroups over records with points
WithinSpec == WithinInit /\ [][WithinNext]_vars

\* ------------------------------------------------------------------------
\* Properties of the deterministic rule chain
\* ------------------------------------------------------------------------
LastRule == sortRules[Len(sortRules)]

\* the rule applied last is a LinkGroup rule
AfterLinkGroup ==
  /\ Len(sortRules) > 0
  /\ LastRule.type = "linked-issues"

\* graph, groups and orphans of the LinkGroup rule applied last
LastParts == LinkedIssuesParts(prevResults, LastRule.linkedIssues)

\* the identifiers named by the links fields of the rule's input
LastInboundRefs ==
  BuildGraph(prevResults, LastRule.linkedIssues, 1,
             [graph |-> <<>>, inboundRefs |-> {}]).inboundRefs

PrimaryKeyOf(result) ==
  extractIssueKeys(Field(result.row, "Key"), [source |-> DefaultPatternSource, flags |-> "g"])

HasKey(result) == Len(PrimaryKeyOf(result)) > 0

Positions(results, originalIndex) ==
  {i \in 1..Len(results) : results[i].originalIndex = originalIndex}

RECURSIVE SumLinks(_, _)
SumLinks(graph, i) ==
  IF i > Len(graph) THEN 0 ELSE Len(graph[i].linkedKeys) + SumLinks(graph, i + 1)

\* C6: applySorting returns each input record exactly once, for every chain
\* of Simple and LinkGroup rules: the originalIndex values of the output are
\* exactly 0..n-1, also when two records have the same primary identifier.
C6_EachRecordExactlyOnce ==
  /\ Len(sortResults) = Len(sortRows)
  /\ \A k \in 0..(Len(sortRows) - 1) : Cardinality(Positions(sortResults, k)) = 1

\* X and Y reference each other, reference no third graph node, and no
\* other input record references either of them
MutualCycle(x, y) ==
  LET graph == LastParts.graph
  IN /\ x # y
     /\ graph[y].issueKey \in SeqToSet(graph[x].linkedKeys)
     /\ graph[x].issueKey \in SeqToSet(graph[y].linkedKeys)
     /\ \A z \in 1..Len(graph) :
          z \notin {x, y} =>
            /\ graph[z].issueKey \notin SeqToSet(graph[x].linkedKeys)
            /\ graph[z].issueKey \notin SeqToSet(graph[y].linkedKeys)
     /\ \A i \in 1..Len(prevResults) :
          LET refs == SeqToSet(extractIssueKeys(Field(prevResults[i].row, "Links"),
                                                LastRule.linkedIssues.issueKeyPattern))
          IN (HasKey(prevResults[i])
              /\ PrimaryKeyOf(prevResults[i])[1] \in {graph[x].issueKey, graph[y].issueKey})
             \/ refs \cap {graph[x].issueKey, graph[y].issueKey} = {}

\* C7: the LinkGroup traversal terminates on every graph of references
\* (cycles included) within one dfs call per root, per start node and per
\* link, never exceeds the call depth, and emits every graph node exactly
\* once inside a group; the two nodes of a mutual cycle with no other
\* inbound reference form one group of size 2, in either input order.
C7_CycleTraversal ==
  AfterLinkGroup =>
    LET graph == LastParts.graph
        grouped == {i \in 1..Len(sortResults) : sortResults[i].groupId # NullV}
    IN /\ ~LastParts.overflow
       /\ LastParts.calls <= Len(graph) + SumLinks(graph, 1)
       /\ Cardinality(grouped) = Len(graph)
       /\ \A n \in 1..Len(graph) :
            Cardinality(Positions(sortResults, graph[n].originalIndex) \cap grouped) = 1
       /\ \A x, y \in 1..Len(graph) :
            MutualCycle(x, y) =>
              \E i, j \in grouped :
                /\ sortResults[i].originalIndex = graph[x].originalIndex
                /\ sortResults[j].originalIndex = graph[y].originalIndex
                /\ sortResults[i].groupId = sortResults[j].groupId
                /\ sortResults[i].groupSize = NumV(2)
                /\ sortResults[j].groupSize = NumV(2)

\* a mutual cycle whose second node comes first in the input, and a graph
\* in which no node is a root, have been traversed
C7_Witness ==
  /\ AfterLinkGroup
  /\ Len(Roots(LastParts.graph, LastInboundRefs)) = 0
  /\ \E x, y \in 1..Len(LastParts.graph) :
       /\ MutualCycle(x, y)
       /\ LastParts.graph[x].originalIndex > LastParts.graph[y].originalIndex
       /\ LastParts.graph[x].issueKey = KeyA

LinksOf(result) ==
  SeqToSet(extractIssueKeys(Field(result.row, "Links"),
                            [source |-> DefaultPatternSource, flags |-> "g"]))

\* the record at position i of the rule's input names its own identifier
SelfLinked(i) ==
  /\ HasKey(prevResults[i])
  /\ PrimaryKeyOf(prevResults[i])[1] \in LinksOf(prevResults[i])

\* no other record references it and it references no other record
Isolated(i) ==
  \A j \in 1..Len(prevResults) :
    j # i =>
      /\ PrimaryKeyOf(prevResults[i])[1] \notin LinksOf(prevResults[j])
      /\ HasKey(prevResults[j]) =>
           PrimaryKeyOf(prevResults[j])[1] \notin LinksOf(prevResults[i])

\* C8: a record whose links field contains its own identifier is emitted
\* exactly once by a LinkGroup rule; when it is isolated it forms a group
\* with groupId equal to its own identifier and groupSize 1.
C8_SelfLinkEmittedOnce ==
  AfterLinkGroup =>
    \A i \in 1..Len(prevResults) :
      SelfLinked(i) =>
        /\ Cardinality(Positions(sortResults, prevResults[i].originalIndex)) = 1
        /\ Isolated(i) =>
             \A p \in Positions(sortResults, prevResults[i].originalIndex) :
               /\ sortResults[p].groupId = StrV(PrimaryKeyOf(prevResults[i])[1])
               /\ sortResults[p].groupSize = NumV(1)

\* C9: after a LinkGroup rule every result with a groupId g has groupSize
\* equal to the number of output results whose groupId is g; a dangling
\* reference adds no output entry (every output entry is an input record,
\* at most once) and counts towards no groupSize.
C9_GroupSizeIsMemberCount ==
  AfterLinkGroup =>
    /\ \A i \in 1..Len(sortResults) :
         sortResults[i].groupId # NullV =>
           sortResults[i].groupSize =
             NumV(Cardinality({j \in 1..Len(sortResults) :
                                 sortResults[j].groupId = sortResults[i].groupId}))
    /\ \A i \in 1..Len(sortResults) :
         /\ \E j \in 1..Len(prevResults) :
              /\ prevResults[j].originalIndex = sortResults[i].originalIndex
              /\ prevResults[j].row = sortResults[i].row
         /\ Cardinality(Positions(sortResults, sortResults[i].originalIndex)) = 1

\* a group of two members one of which names an identifier that is no
\* record's primary identifier
C9_Witness ==
  /\ AfterLinkGroup
  /\ \E i \in 1..Len(sortResults) :
       /\ sortResults[i].groupSize = NumV(2)
       /\ \E k \in LinksOf(sortResults[i]) : ~MapHas(LastParts.graph, k)

\* the raw string value of a key field (the empty string when it is absent)
RawString(v) == IF v.t = "null" THEN <<>> ELSE String(v)

\* C10: after a LinkGroup rule every record whose key field yields no
\* identifier comes after every grouped record, carries neither groupId nor
\* groupSize, and these records are in alphabetical order of the raw string
\* value of their key field, whatever their order in the input.
C10_OrphansLastAlphabetical ==
  AfterLinkGroup =>
    \A i \in 1..Len(sortResults) :
      ~HasKey(sortResults[i]) =>
        /\ sortResults[i].groupId = NullV
        /\ sortResults[i].groupSize = NullV
        /\ \A j \in 1..Len(sortResults) :
             sortResults[j].groupId # NullV => j < i
        /\ \A j \in 1..Len(sortResults) :
             (j < i /\ ~HasKey(sortResults[j])) =>
               localeCompare(RawString(Field(sortResults[j].row, "Key")),
                             RawString(Field(sortResults[i].row, "Key"))) <= 0

\* C11: applySorting with an empty rule list returns one result per record,
\* in input order, with originalIndex equal to the input position of the
\* record and with neither groupId nor groupSize.
C11_EmptyChainKeepsInputOrder ==
  Len(sortRules) = 0 =>
    /\ Len(sortResults) = Len(sortRows)
    /\ \A i \in 1..Len(sortRows) :
         /\ sortResults[i].row = sortRows[i]
         /\ sortResults[i].originalIndex = i - 1
         /\ sortResults[i].groupId = NullV
         /\ sortResults[i].groupSize = NullV

\* the rule list was cleared after a chain had put records of a list of
\* two or more in another order and had set group fields
C11_Witness ==
  /\ Len(sortRules) = 0
  /\ Len(sortRows) >= 2
  /\ Len(prevResults) = Len(sortRows)
  /\ prevResults[1].originalIndex # 0
  /\ \E i \in 1..Len(prevResults) : prevResults[i].groupId # NullV

\* the rule applied last is a Simple rule
AfterSimple ==
  /\ Len(sortRules) > 0
  /\ LastRule.type = "simple"

\* the sort field of the rule applied last is null, undefined or absent
Missing(result) == Field(result.row, LastRule.simple.field).t = "null"

\* C12: after a Simple rule, for both directions and both numeric settings,
\* every result whose sort field is null, undefined or absent comes after
\* every result whose sort field has a value.
C12_MissingValuesLast ==
  AfterSimple =>
    \A i, j \in 1..Len(sortResults) :
      (Missing(sortResults[i]) /\ ~Missing(sortResults[j])) => j < i

\* a descending numeric rule moved a result without value from the first
\* place behind two results with values
C12_Witness ==
  /\ AfterSimple
  /\ LastRule.simple.direction = "desc"
  /\ LastRule.simple.numeric
  /\ Len(prevResults) = 3
  /\ Missing(prevResults[1])
  /\ ~Missing(prevResults[2])
  /\ ~Missing(prevResults[3])
  /\ sortResults[3] = prevResults[1]

\* the place of the result of a record in the output of the rule
PlaceOf(result) ==
  CHOOSE p \in 1..Len(sortResults) : sortResults[p].originalIndex = result.originalIndex

\* C13: a Simple rule is stable: two results that compare equal on the sort
\* field (also two results whose field is missing) keep the relative order
\* they had in the input of the rule, for both directions.
C13_SimpleRuleIsStable ==
  AfterSimple =>
    /\ Len(sortResults) = Len(prevResults)
    /\ \A i, j \in 1..Len(prevResults) :
         (i < j /\ SimpleCompare(prevResults[i], prevResults[j], LastRule.simple) = 0) =>
           /\ \E p \in 1..Len(sortResults) : sortResults[p] = prevResults[i]
           /\ \E p \in 1..Len(sortResults) : sortResults[p] = prevResults[j]
           /\ PlaceOf(prevResults[i]) < PlaceOf(prevResults[j])

\* a descending rule moved the two tied results, which are different rows
\* with values, behind a result that stood between them
C13_Witness ==
  /\ AfterSimple
  /\ LastRule.simple.direction = "desc"
  /\ Len(prevResults) = 3
  /\ ~Missing(prevResults[1])
  /\ prevResults[1].row # prevResults[3].row
  /\ SimpleCompare(prevResults[1], prevResults[3], LastRule.simple) = 0
  /\ sortResults = <<prevResults[2], prevResults[1], prevResults[3]>>

\* C14: rule chaining is function composition over the result list: the
\* output of applySorting with the chain [r1, ..., rk] is rk applied to the
\* output of applySorting with [r1, ..., rk-1] (so [LinkGroup, Simple] is
\* the simple sort of the LinkGroup output), and after every rule the
\* originalIndex of each result names the input position of its record.
C14_ChainIsComposition ==
  Len(sortRules) > 0 =>
    /\ sortResults = ApplyRule(prevResults, LastRule)
    /\ \A i \in 1..Len(sortResults) :
         /\ sortResults[i].originalIndex \in 0..(Len(sortRows) - 1)
         /\ sortResults[i].row = sortRows[sortResults[i].originalIndex + 1]

\* the chain [LinkGroup, Simple]: the Simple rule put the grouped output of
\* the LinkGroup rule, which was not in input order, in another order
C14_Witness ==
  /\ Len(sortRules) = 2
  /\ sortRules[1].type = "linked-issues"
  /\ sortRules[2].type = "simple"
  /\ sortResults # prevResults
  /\ \E i \in 1..Len(prevResults) : prevResults[i].originalIndex # i - 1
  /\ Len(prevResults) = Len(sortRows)
  /\ \E i \in 1..Len(sortResults) : sortResults[i].groupId # NullV

\* C20: after a LinkGroup rule the groups are the connected components of
\* the reference graph: two records that are graph nodes and are joined by
\* a reference (the links field of X names the primary identifier of Y)
\* carry the same groupId, also when two different roots reference Y.
C20_GroupsAreComponents ==
  AfterLinkGroup =>
    \A i, j \in 1..Len(sortResults) :
      (/\ HasKey(sortResults[i])
       /\ HasKey(sortResults[j])
       /\ PrimaryKeyOf(sortResults[j])[1] \in LinksOf(sortResults[i])) =>
        sortResults[i].groupId = sortResults[j].groupId

\* the identifiers named by the links field of a record of the rule's input
\* that has an identifier of its own
ReferencedKeys ==
  UNION {LinksOf(prevResults[i]) : i \in {j \in 1..Len(prevResults) : HasKey(prevResults[j])}}

RECURSIVE VisitOrder(_, _, _, _)
\* depth-first visit order kept on an explicit stack: the identifier on top
\* is visited unless it was visited before or is no graph node, and its links
\* go on top of the stack, the leftmost uppermost
VisitOrder(graph, stack, root, st) ==
  IF Len(stack) = 0 THEN st
  ELSE IF Head(stack) \in st.visited \/ ~MapHas(graph, Head(stack))
    THEN VisitOrder(graph, Tail(stack), root, st)
  ELSE LET node == MapGet(graph, Head(stack))
       IN VisitOrder(graph, node.linkedKeys \o Tail(stack), root,
                     [visited |-> st.visited \cup {Head(stack)},
                      order |-> Append(st.order, [originalIndex |-> node.originalIndex,
                                                  groupId |-> StrV(root)])])

RECURSIVE DiscoveryOrder(_, _, _, _)
\* one visit per start identifier, in the order of starts
DiscoveryOrder(graph, starts, i, st) ==
  IF i > Len(starts) THEN st.order
  ELSE DiscoveryOrder(graph, starts, i + 1,
                      VisitOrder(graph, <<starts[i]>>, starts[i], st))

\* the results of the rule applied last that carry a groupId
GroupedResults ==
  LET Grouped(result) == result.groupId # NullV
  IN SelectSeq(sortResults, Grouped)

\* roots in graph order, then every graph node in graph order
DiscoveryStarts(graph) ==
  LET IsRoot(key) == key \notin ReferencedKeys
  IN SelectSeq(GraphKeys(graph), IsRoot) \o GraphKeys(graph)

\* the graph of the rule applied last, visited from its starts
DiscoveryOf(graph) ==
  DiscoveryOrder(graph, DiscoveryStarts(graph), 1, [visited |-> {}, order |-> <<>>])

ExpectedDiscovery ==
  DiscoveryOf(BuildGraph(prevResults, LastRule.linkedIssues, 1,
                         [graph |-> <<>>, inboundRefs |-> {}]).graph)

LaterDuplicate(i, j) ==
  /\ i < j
  /\ HasKey(prevResults[i])
  /\ HasKey(prevResults[j])
  /\ PrimaryKeyOf(prevResults[i])[1] = PrimaryKeyOf(prevResults[j])[1]
  /\ \A k \in (j + 1)..Len(prevResults) :
       HasKey(prevResults[k]) =>
         PrimaryKeyOf(prevResults[k])[1] # PrimaryKeyOf(prevResults[j])[1]

\* the positions of the output whose record has the first identifier key
EmittedFor(key) ==
  {p \in 1..Len(sortResults) : HasKey(sortResults[p]) /\ PrimaryKeyOf(sortResults[p])[1] = key}

\* C22: when two records of a LinkGroup rule's input have the same first
\* identifier, the result emitted for the identifier has the row and the
\* originalIndex of the later record; only the links of emitted records are
\* traversed: every grouped result that is not the root of its group is
\* named by the links of an emitted result of the same group.
C22_LaterRecordIsTheNode ==
  AfterLinkGroup =>
    /\ \A i, j \in 1..Len(prevResults) :
         LaterDuplicate(i, j) =>
           /\ Cardinality(EmittedFor(PrimaryKeyOf(prevResults[j])[1])) = 1
           /\ \A p \in EmittedFor(PrimaryKeyOf(prevResults[j])[1]) :
                /\ sortResults[p].originalIndex = prevResults[j].originalIndex
                /\ sortResults[p].row = prevResults[j].row
    /\ \A p \in 1..Len(sortResults) :
         (sortResults[p].groupId # NullV
          /\ sortResults[p].groupId # StrV(PrimaryKeyOf(sortResults[p])[1])) =>
           \E q \in 1..Len(sortResults) :
             /\ sortResults[q].groupId = sortResults[p].groupId
             /\ PrimaryKeyOf(sortResults[p])[1] \in LinksOf(sortResults[q])

\* the earlier of two records with the same identifier names a record that
\* the later one does not name, and that record is in another group
C22_Witness ==
  /\ AfterLinkGroup
  /\ \E i, j \in 1..Len(prevResults) :
       /\ LaterDuplicate(i, j)
       /\ \E p \in 1..Len(sortResults) :
            /\ HasKey(sortResults[p])
            /\ PrimaryKeyOf(sortResults[p])[1] \in LinksOf(prevResults[i])
            /\ PrimaryKeyOf(sortResults[p])[1] \notin LinksOf(prevResults[j])
            /\ sortResults[p].groupId # StrV(PrimaryKeyOf(prevResults[j])[1])
            /\ sortResults[p].groupId # NullV

\* the groups of the rule applied last before the sort within groups: its
\* members in discovery order
DiscoveredGroups ==
  LinkedIssuesParts(prevResults,
                    [LastRule.linkedIssues EXCEPT !.sortWithinGroups = NoSimple]).groups

\* C23: with a sortWithinGroups configuration each group of a LinkGroup
\* rule is ordered by the Simple-rule semantics of that configuration
\* (nulls last, direction applied, numeric = true comparing the parsed
\* numbers): every group equals applySortSimple with that configuration
\* applied to the members of the group in discovery order.
C23_WithinGroupsIsSimpleSort ==
  (AfterLinkGroup /\ LastRule.linkedIssues.sortWithinGroups.present) =>
    /\ Len(LastParts.groups) = Len(DiscoveredGroups)
    /\ \A g \in 1..Len(DiscoveredGroups) :
         LastParts.groups[g] =
           applySortSimple(DiscoveredGroups[g], LastRule.linkedIssues.sortWithinGroups)

\* ------------------------------------------------------------------------
\* aiSorting.ts: the AI merge layer
\* ------------------------------------------------------------------------
possibleKeyFields ==
  <<"Key", "key", "ID", "id", "Issue Key", "Issue ID", "Ticket ID", "Ticket Key">>

\* the columns of the import, in the order Object.keys lists them
ColumnOrder == <<"Key", "Links">>

ObjectKeys(row) ==
  LET InRow(f) == f \in DOMAIN row
  IN SelectSeq(ColumnOrder, InRow)

\* /key|id/i.test(f) over the column names
KeyOrIdPattern(f) == f \in {"Key"}

findKeyField(results) ==
  IF Len(results) = 0 THEN "Key"
  ELSE LET InFirstRow(f) == f \in DOMAIN results[1].row
           exact == SelectSeq(possibleKeyFields, InFirstRow)
           fields == ObjectKeys(results[1].row)
           byPattern == SelectSeq(fields, KeyOrIdPattern)
       IN IF Len(exact) > 0 THEN exact[1]
          ELSE IF Len(byPattern) > 0 THEN byPattern[1]
          ELSE IF Len(fields) > 0 THEN fields[1]
          ELSE "Key"

TicketPrefix == <<"t", "i", "c", "k", "e", "t", "-">>

\* String(result.row[keyField] || `ticket-${index}`), index counted from 0
TicketKey(result, index, keyField) ==
  IF Truthy(Field(result.row, keyField))
  THEN String(Field(result.row, keyField))
  ELSE TicketPrefix \o NatToStr(index)

\* What sendChatMessage and JSON.parse make of the classifier's answer:
\*   "throw"       sendChatMessage rejects (transport failure, error status)
\*   "blank"       the empty string
\*   "unparsable"  text on which JSON.parse throws
\*   "emptyArray"  the text []
\*   "null"        the text null
\*   "array"       a JSON array of items
\*   "object"      a JSON object of entries
Response(kind, items, entries) == [kind |-> kind, items |-> items, entries |-> entries]

\* an array item { from, to, confidence }; confidence is in tenths
Rel(from, to, confidence) ==
  [isNull |-> FALSE, from |-> from, to |-> to, confidence |-> confidence]

\* the array item null
NullItem == [isNull |-> TRUE, from |-> NullV, to |-> NullV, confidence |-> NullV]

Entry(key, value) == [key |-> key, value |-> value]

\* rel.confidence >= 0.5, in tenths
ConfidenceThreshold == 5

\* linkMap.get(from).push(to), after linkMap.set(from, []) for a new key
LinkMapPush(linkMap, from, to) ==
  IF \E i \in 1..Len(linkMap) : linkMap[i].from = from
  THEN [i \in 1..Len(linkMap) |->
          IF linkMap[i].from = from
          THEN [linkMap[i] EXCEPT !.to = Append(@, to)]
          ELSE linkMap[i]]
  ELSE Append(linkMap, [from |-> from, to |-> <<to>>])

\* linkMap.set(ticketId, links)
LinkMapSet(linkMap, from, links) ==
  IF \E i \in 1..Len(linkMap) : linkMap[i].from = from
  THEN [i \in 1..Len(linkMap) |->
          IF linkMap[i].from = from THEN [from |-> from, to |-> links] ELSE linkMap[i]]
  ELSE Append(linkMap, [from |-> from, to |-> links])

RECURSIVE BuildLinkMap(_, _, _)
\* relationships.forEach: reading a property of a null item throws
BuildLinkMap(items, i, acc) ==
  IF i > Len(items) \/ acc.threw THEN acc
  ELSE IF items[i].isNull THEN [acc EXCEPT !.threw = TRUE]
  ELSE IF ~Truthy(items[i].from) \/ ~Truthy(items[i].to)
    THEN BuildLinkMap(items, i + 1, acc)
  ELSE IF items[i].confidence.t = "num" /\ items[i].confidence.n >= ConfidenceThreshold
    THEN BuildLinkMap(items, i + 1,
           [acc EXCEPT !.linkMap = LinkMapPush(@, items[i].from, items[i].to)])
  ELSE BuildLinkMap(items, i + 1, acc)

\* String(r.row[keyField]) of every result, without the empty string
ValidTicketIds(results, keyField) ==
  {String(Field(results[i].row, keyField)) : i \in 1..Len(results)} \ {<<>>}

RECURSIVE AddMatches_AnyIdentifier(_, _, _, _, _)
\* matches.forEach without the test validTicketIds.has(match)
AddMatches_AnyIdentifier(matches, k, validTicketIds, ticketId, links) ==
  IF k > Len(matches) THEN links
  ELSE IF /\ matches[k] # ticketId
          /\ StrV(matches[k]) \notin SeqToSet(links)
    THEN AddMatches_AnyIdentifier(matches, k + 1, validTicketIds, ticketId,
                                  Append(links, StrV(matches[k])))
  ELSE AddMatches_AnyIdentifier(matches, k + 1, validTicketIds, ticketId, links)

RECURSIVE AddMatches(_, _, _, _, _)
\* matches.forEach of detectRelationshipsLocally
AddMatches(matches, k, validTicketIds, ticketId, links) ==
  IF k > Len(matches) THEN links
  ELSE IF /\ matches[k] \in validTicketIds
          /\ matches[k] # ticketId
          /\ StrV(matches[k]) \notin SeqToSet(links)
    THEN AddMatches(matches, k + 1, validTicketIds, ticketId, Append(links, StrV(matches[k])))
  ELSE AddMatches(matches, k + 1, validTicketIds, ticketId, links)

RECURSIVE LinksOfTicket(_, _, _, _, _, _)
\* fieldsToAnalyze.forEach of detectRelationshipsLocally
LinksOfTicket(result, fieldsToAnalyze, f, validTicketIds, ticketId, links) ==
  IF f > Len(fieldsToAnalyze) THEN links
  ELSE LinksOfTicket(result, fieldsToAnalyze, f + 1, validTicketIds, ticketId,
         AddMatches(MatchAll(StringOrEmpty(Field(result.row, fieldsToAnalyze[f])), 1), 1,
                    validTicketIds, ticketId, links))

RECURSIVE DetectFrom(_, _, _, _, _)
\* results.forEach of detectRelationshipsLocally
DetectFrom(results, fieldsToAnalyze, keyField, i, linkMap) ==
  IF i > Len(results) THEN linkMap
  ELSE LET ticketId == String(Field(results[i].row, keyField))
           links == LinksOfTicket(results[i], fieldsToAnalyze, 1,
                                  ValidTicketIds(results, keyField), ticketId, <<>>)
       IN IF ticketId = <<>> \/ Len(links) = 0
          THEN DetectFrom(results, fieldsToAnalyze, keyField, i + 1, linkMap)
          ELSE DetectFrom(results, fieldsToAnalyze, keyField, i + 1,
                          LinkMapSet(linkMap, StrV(ticketId), links))

detectRelationshipsLocally(results, fieldsToAnalyze, keyField) ==
  DetectFrom(results, fieldsToAnalyze, keyField, 1, <<>>)

\* The catch block of applyNaturalLanguageLinks reads `response`, which is
\* declared inside the try block and is not in scope there: the catch block
\* itself throws a ReferenceError, so every error of the try block leaves
\* the function as a rejection.
applyNaturalLanguageLinks(results, config, response, keyField) ==
  CASE response.kind \in {"throw", "unparsable"} -> [threw |-> TRUE, linkMap |-> <<>>]
    [] response.kind \in {"blank", "emptyArray"} ->
         [threw |-> FALSE,
          linkMap |-> detectRelationshipsLocally(results, config.fieldsToAnalyze, keyField)]
    [] response.kind = "array" ->
         BuildLinkMap(response.items, 1, [threw |-> FALSE, linkMap |-> <<>>])
    [] OTHER -> [threw |-> FALSE, linkMap |-> <<>>]

\* the key of a Map or Set that holds strings: a value that is no string
\* is no key of it
IsKeyOf(graph, v) == v.t = "str" /\ \E i \in 1..Len(graph) : graph[i].key = v.s

\* neighbours.add(v) on the node of key: a Set keeps the first insertion
AddNeighbor(graph, key, v) ==
  [i \in 1..Len(graph) |->
     IF graph[i].key = key.s /\ v \notin SeqToSet(graph[i].nbrs)
     THEN [graph[i] EXCEPT !.nbrs = Append(@, v)]
     ELSE graph[i]]

RECURSIVE InitGraph(_, _, _, _)
\* Initialize graph with all ticket keys
InitGraph(results, keyField, i, graph) ==
  IF i > Len(results) THEN graph
  ELSE IF IsKeyOf(graph, StrV(TicketKey(results[i], i - 1, keyField)))
    THEN InitGraph(results, keyField, i + 1, graph)
  ELSE InitGraph(results, keyField, i + 1,
                 Append(graph, [key |-> TicketKey(results[i], i - 1, keyField),
                                nbrs |-> <<>>]))

\* graph.get(from)?.add(to); if (graph.has(to)) graph.get(to).add(from)
AddEdge(graph, from, to) ==
  LET forward == IF IsKeyOf(graph, from) THEN AddNeighbor(graph, from, to) ELSE graph
  IN IF IsKeyOf(forward, to) THEN AddNeighbor(forward, to, from) ELSE forward

RECURSIVE AddEdgesOf(_, _, _, _)
AddEdgesOf(graph, from, linkedTo, k) ==
  IF k > Len(linkedTo) THEN graph
  ELSE AddEdgesOf(AddEdge(graph, from, linkedTo[k]), from, linkedTo, k + 1)

RECURSIVE AddEdges(_, _, _)
\* Add edges from linkMap (bidirectional for grouping)
AddEdges(graph, linkMap, i) ==
  IF i > Len(linkMap) THEN graph
  ELSE AddEdges(AddEdgesOf(graph, linkMap[i].from, linkMap[i].to, 1), linkMap, i + 1)

NeighborsOf(graph, v) ==
  IF IsKeyOf(graph, v)
  THEN graph[CHOOSE i \in 1..Len(graph) : graph[i].key = v.s].nbrs
  ELSE <<>>

RECURSIVE dfsComponent(_, _, _)
\* the dfs closure of applyAISorting: st carries visited and currentGroup
dfsComponent(graph, ticketKey, st) ==
  IF ticketKey \in st.visited THEN st
  ELSE LET entered == [visited |-> st.visited \cup {ticketKey},
                       group |-> Append(st.group, ticketKey)]
           RECURSIVE VisitNeighbors(_, _)
           VisitNeighbors(k, s) ==
             IF k > Len(NeighborsOf(graph, ticketKey)) THEN s
             ELSE VisitNeighbors(k + 1,
                    dfsComponent(graph, NeighborsOf(graph, ticketKey)[k], s))
       IN VisitNeighbors(1, entered)

RECURSIVE Components(_, _, _, _, _)
\* Run DFS for each unvisited ticket
Components(results, keyField, graph, i, acc) ==
  IF i > Len(results) THEN acc.groups
  ELSE IF StrV(TicketKey(results[i], i - 1, keyField)) \in acc.visited
    THEN Components(results, keyField, graph, i + 1, acc)
  ELSE LET st == dfsComponent(graph, StrV(TicketKey(results[i], i - 1, keyField)),
                              [visited |-> acc.visited, group |-> <<>>])
       IN Components(results, keyField, graph, i + 1,
                     [visited |-> st.visited, groups |-> Append(acc.groups, st.group)])

LinkGroupPrefix == <<"l", "i", "n", "k", "-", "g", "r", "o", "u", "p", "-">>

\* ticketToGroup.get(ticketKey): `link-group-${groupIndex}` of the last
\* group that holds the key
GroupIndexOf(groups, ticketKey) ==
  CHOOSE g \in 1..Len(groups) :
    /\ ticketKey \in SeqToSet(groups[g])
    /\ \A h \in (g + 1)..Len(groups) : ticketKey \notin SeqToSet(groups[h])

\* result.aiGroupId and result.groupSize of the relationship mode
TagLinkGroups(results, keyField, groups) ==
  [i \in 1..Len(results) |->
     LET g == GroupIndexOf(groups, StrV(TicketKey(results[i], i - 1, keyField)))
     IN [results[i] EXCEPT !.aiGroupId = StrV(LinkGroupPrefix \o NatToStr(g - 1)),
                           !.groupSize = NumV(Len(groups[g]))]]

Ungrouped == <<"z", "z", "z", "-", "u", "n", "g", "r", "o", "u", "p", "e", "d">>

Unclustered ==
  <<"z", "z", "z", "-", "u", "n", "c", "l", "u", "s", "t", "e", "r", "e", "d">>

\* a.aiGroupId || sentinel
GroupOrSentinel(result, sentinel) ==
  IF Truthy(result.aiGroupId) THEN result.aiGroupId ELSE StrV(sentinel)

\* enrichedResults.sort by aGroup.localeCompare(bGroup)
SortByGroup(results, sentinel) ==
  LET Cmp(a, b) == localeCompare(String(GroupOrSentinel(a, sentinel)),
                                 String(GroupOrSentinel(b, sentinel)))
  IN StableSort(results, Cmp)

\* The outcome of a mode: threw names the exception by which the switch
\* statement is left ("none", "links" for the rejection of
\* applyNaturalLanguageLinks, "sort" for the comparator); tagged is the
\* array `results` as the call leaves it (its objects are shared with
\* enrichedResults, which is a shallow copy); enriched is enrichedResults.
ModeOutcome(threw, tagged, enriched) ==
  [threw |-> threw, tagged |-> tagged, enriched |-> enriched]

LinkGroupsOf(results, keyField, linkMap) ==
  Components(results, keyField, AddEdges(InitGraph(results, keyField, 1, <<>>), linkMap, 1),
             1, [visited |-> {}, groups |-> <<>>])

NaturalLanguageLinksTagged(tagged) ==
  ModeOutcome("none", tagged, SortByGroup(tagged, Ungrouped))

\* case 'natural-language-links'
NaturalLanguageLinksMode(results, keyField, links) ==
  IF links.threw THEN ModeOutcome("links", results, results)
  ELSE NaturalLanguageLinksTagged(
         TagLinkGroups(results, keyField, LinkGroupsOf(results, keyField, links.linkMap)))

\* new Map(Object.entries(parsed)) of applySemanticClustering and
\* applyFuzzyMatching: every error of the try block gives the empty Map.
\* Object.entries(null) throws; an array has its indices as keys.
EntriesOf(response) ==
  CASE response.kind = "object" -> response.entries
    [] response.kind = "array" ->
         [i \in 1..Len(response.items) |->
            Entry(NatToStr(i - 1), IF response.items[i].isNull THEN NullV ELSE ObjV)]
    [] OTHER -> <<>>

applySemanticClustering(results, config, response, keyField) == EntriesOf(response)

applyFuzzyMatching(results, config, response, keyField) == EntriesOf(response)

\* map.has(key)
EntriesHas(entries, key) == \E i \in 1..Len(entries) : entries[i].key = key

\* map.get(key): the last entry of the key, undefined if none
EntriesGet(entries, key) ==
  IF EntriesHas(entries, key)
  THEN entries[CHOOSE i \in 1..Len(entries) :
                 /\ entries[i].key = key
                 /\ \A j \in (i + 1)..Len(entries) : entries[j].key # key].value
  ELSE NullV

\* if (cluster) result.aiGroupId = cluster
TagClusters(results, keyField, clusterMap) ==
  [i \in 1..Len(results) |->
     IF Truthy(EntriesGet(clusterMap, TicketKey(results[i], i - 1, keyField)))
     THEN [results[i] EXCEPT !.aiGroupId =
             EntriesGet(clusterMap, TicketKey(results[i], i - 1, keyField))]
     ELSE results[i]]

\* aCluster.localeCompare is not a function when aCluster is no string.
\* The comparator runs when there are two results or more; when only some
\* tags are no strings, whether one of them is handed over as the first
\* argument depends on the order of the comparisons (nonStringFirst).
SortThrows(tagged, sentinel, nonStringFirst) ==
  /\ Len(tagged) >= 2
  /\ \E i \in 1..Len(tagged) : GroupOrSentinel(tagged[i], sentinel).t # "str"
  /\ \/ nonStringFirst
     \/ \A i \in 1..Len(tagged) : GroupOrSentinel(tagged[i], sentinel).t # "str"

SemanticClusteringTagged(tagged, nonStringFirst) ==
  IF SortThrows(tagged, Unclustered, nonStringFirst)
  THEN ModeOutcome("sort", tagged, tagged)
  ELSE ModeOutcome("none", tagged, SortByGroup(tagged, Unclustered))

\* case 'semantic-clustering'
SemanticClusteringMode(results, keyField, clusterMap, nonStringFirst) ==
  SemanticClusteringTagged(TagClusters(results, keyField, clusterMap), nonStringFirst)

\* if (fuzzyMap.has(ticketKey)) result.aiSimilarity = 1.0
TagFuzzy(results, keyField, fuzzyMap) ==
  [i \in 1..Len(results) |->
     IF EntriesHas(fuzzyMap, TicketKey(results[i], i - 1, keyField))
     THEN [results[i] EXCEPT !.aiSimilarity = NumV(1)]
     ELSE results[i]]

\* the matched results moved to the front
FuzzyMatchingTagged_MatchedFirst(tagged) ==
  LET Matched(result) == result.aiSimilarity # NullV
      Unmatched(result) == result.aiSimilarity = NullV
  IN ModeOutcome("none", tagged, SelectSeq(tagged, Matched) \o SelectSeq(tagged, Unmatched))

FuzzyMatchingTagged(tagged) == ModeOutcome("none", tagged, tagged)

\* case 'fuzzy-matching'
FuzzyMatchingMode(results, keyField, fuzzyMap) ==
  FuzzyMatchingTagged(TagFuzzy(results, keyField, fuzzyMap))

\* switch (config.mode)
RunMode(results, config, response, keyField, nonStringFirst) ==
  CASE config.mode = "natural-language-links" ->
         NaturalLanguageLinksMode(results, keyField,
           applyNaturalLanguageLinks(results, config, response, keyField))
    [] config.mode = "semantic-clustering" ->
         SemanticClusteringMode(results, keyField,
           applySemanticClustering(results, config, response, keyField), nonStringFirst)
    [] config.mode = "fuzzy-matching" ->
         FuzzyMatchingMode(results, keyField,
           applyFuzzyMatching(results, config, response, keyField))
    [] OTHER -> ModeOutcome("none", results, results)

\* What a call of applyAISorting leaves: rejected tells that the promise
\* rejects, returned is the array it resolves to, results is the array it
\* was given, with its objects as the call leaves them, caught names the
\* exception its catch block caught.
Refinement(rejected, returned, results, caught) ==
  [rejected |-> rejected, returned |-> returned, results |-> results, caught |-> caught]

\* the try statement without its catch block
CatchAll_Rethrow(outcome) ==
  IF outcome.threw # "none"
  THEN Refinement(TRUE, <<>>, outcome.tagged, outcome.threw)
  ELSE Refinement(FALSE, outcome.enriched, outcome.tagged, "none")

\* try { switch ... } catch (error) { return results }; return enrichedResults
CatchAll(outcome) ==
  IF outcome.threw # "none"
  THEN Refinement(FALSE, outcome.tagged, outcome.tagged, outcome.threw)
  ELSE Refinement(FALSE, outcome.enriched, outcome.tagged, "none")

applyAISorting(results, config, hasProvider, response, nonStringFirst) ==
  IF ~config.enabled \/ ~hasProvider
  THEN Refinement(FALSE, results, results, "none")
  ELSE CatchAll(RunMode(results, config, response, findKeyField(results), nonStringFirst))

\* ------------------------------------------------------------------------
\* One call of applyAISorting on the output of applySorting
\* ------------------------------------------------------------------------
\* an identifier that is no record's key
KeyZ == <<"Z", "-", "9">>

ClusterUi == <<"u", "i">>

ClusterDb == <<"d", "b">>

\* a cluster name that collates behind the text zzz-unclustered
ClusterZzzz == <<"z", "z", "z", "z">>

\* two records that share a key, a record that names another one, and a
\* record whose key is the number 0
AIRows ==
  {[Key |-> StrV(KeyA), Links |-> NullV],
   [Key |-> StrV(KeyB), Links |-> StrV(KeyA)],
   [Key |-> StrV(KeyB), Links |-> NullV],
   [Key |-> NumV(0), Links |-> StrV(KeyA)]}

AIRowLists == UNION {[1..n -> AIRows] : n \in 0..MaxRows}

AIRuleChains == {<<>>, <<LinkedRule(NoSimple)>>}

NoItems == <<>>

NoEntries == <<>>

FailedResponses ==
  {Response("throw", NoItems, NoEntries), Response("unparsable", NoItems, NoEntries)}

EmptyResponses ==
  {Response("blank", NoItems, NoEntries), Response("emptyArray", NoItems, NoEntries),
   Response("null", NoItems, NoEntries)}

RelationshipResponses ==
  {Response("array", <<Rel(StrV(KeyA), StrV(KeyB), NumV(9))>>, NoEntries),
   Response("array", <<Rel(StrV(KeyB), StrV(KeyA), NumV(10)),
                       Rel(StrV(KeyB), StrV(KeyZ), NumV(10))>>, NoEntries),
   Response("array", <<Rel(StrV(KeyA), StrV(KeyB), NumV(3))>>, NoEntries),
   Response("array", <<Rel(StrV(KeyA), StrV(KeyB), NumV(9)), NullItem>>, NoEntries),
   Response("array", <<Rel(StrV(KeyA), NumV(7), NumV(9))>>, NoEntries),
   Response("array", <<Rel(StrV(KeyA), StrV(KeyZ), NumV(9)),
                       Rel(StrV(KeyB), StrV(KeyZ), NumV(5))>>, NoEntries)}

ClusterResponses ==
  {Response("object", NoItems, <<Entry(KeyA, StrV(ClusterUi)), Entry(KeyB, StrV(ClusterDb))>>),
   Response("object", NoItems, <<Entry(KeyB, StrV(ClusterDb))>>),
   Response("object", NoItems, <<Entry(KeyB, StrV(ClusterZzzz))>>),
   Response("object", NoItems, <<Entry(KeyA, NumV(5)), Entry(KeyB, NumV(7))>>),
   Response("object", NoItems, <<Entry(KeyA, NumV(5))>>),
   Response("object", NoItems, <<Entry(TicketPrefix \o <<"0">>, StrV(ClusterDb)),
                                 Entry(KeyA, NullV)>>)}

Responses ==
  FailedResponses \cup EmptyResponses \cup RelationshipResponses \cup ClusterResponses

AISortConfig(enabled, mode) ==
  [enabled |-> enabled, mode |-> mode, fieldsToAnalyze |-> <<"Links">>]

\* baseResults is the output of applySorting; applyAISorting has not run
AIInit ==
  /\ baseResults \in {applySorting(rowList, [rules |-> chain]) :
                        rowList \in AIRowLists, chain \in AIRuleChains}
  /\ refined = FALSE
  /\ refineConfig = AISortConfig(FALSE, "natural-language-links")
  /\ refineProvider = FALSE
  /\ refineResponse = Response("blank", NoItems, NoEntries)
  /\ refineOutcome = Refinement(FALSE, baseResults, baseResults, "none")
  /\ SortParked
  /\ UIParked
  /\ TplParked

\* await applyAISorting(baseResults, config, aiProvider), the classifier
\* answering with response
Refine(config, hasProvider, response, nonStringFirst) ==
  /\ ~refined
  /\ refined' = TRUE
  /\ refineConfig' = config
  /\ refineProvider' = hasProvider
  /\ refineResponse' = response
  /\ refineOutcome' = applyAISorting(baseResults, config, hasProvider, response, nonStringFirst)
  /\ UNCHANGED <<baseResults, sortVars, uiVars, tplVars>>

RefineNaturalLanguageLinks ==
  \E response \in Responses :
    Refine(AISortConfig(TRUE, "natural-language-links"), TRUE, response, FALSE)

RefineSemanticClustering ==
  \E response \in Responses, nonStringFirst \in BOOLEAN :
    Refine(AISortConfig(TRUE, "semantic-clustering"), TRUE, response, nonStringFirst)

RefineFuzzyMatching ==
  \E response \in Responses :
    Refine(AISortConfig(TRUE, "fuzzy-matching"), TRUE, response, FALSE)

\* AI sorting disabled, or no provider configured
RefineSkipped ==
  \E enabled, hasProvider \in BOOLEAN, response \in FailedResponses :
    /\ ~(enabled /\ hasProvider)
    /\ Refine(AISortConfig(enabled, "semantic-clustering"), hasProvider, response, FALSE)

AINext ==
  \/ RefineNaturalLanguageLinks
  \/ RefineSemanticClustering
  \/ RefineFuzzyMatching
  \/ RefineSkipped

AISpec == AIInit /\ [][AINext]_vars

\* the classifier call threw, its answer was no JSON, or the catch block of
\* applyAISorting caught an exception
RefinementFailed ==
  /\ refined
  /\ refineConfig.enabled
  /\ refineProvider
  /\ \/ refineResponse.kind \in {"throw", "unparsable"}
     \/ refineOutcome.caught # "none"

\* C4: in every AI mode, when the classifier call throws, the response is
\* not parsable JSON, or an error occurs after tagging has begun,
\* applyAISorting returns the results in exactly the order of baseResults
\* and no result carries an aiGroupId, groupSize or aiSimilarity value it
\* did not have before the call.
C4_FailureReturnsBaseResults ==
  RefinementFailed =>
    /\ ~refineOutcome.rejected
    /\ refineOutcome.returned = baseResults
    /\ refineOutcome.results = baseResults

\* C5: for every mode and every classifier behaviour applyAISorting
\* resolves without throwing and the returned list is a permutation of
\* baseResults: the same number of results, each input result exactly once.
C5_NeverThrowsPermutation ==
  refined =>
    /\ ~refineOutcome.rejected
    /\ Len(refineOutcome.returned) = Len(baseResults)
    /\ \A k \in 1..Len(baseResults) :
         \E p \in 1..Len(refineOutcome.returned) :
           /\ refineOutcome.returned[p].originalIndex = baseResults[k].originalIndex
           /\ refineOutcome.returned[p].row = baseResults[k].row
           /\ \A q \in 1..Len(refineOutcome.returned) :
                refineOutcome.returned[q].originalIndex = baseResults[k].originalIndex
                  => q = p

\* the catch block of applyAISorting caught an exception for a list of two
\* results or more
C5_Witness ==
  /\ refined
  /\ Len(baseResults) >= 2
  /\ refineOutcome.caught # "none"

\* applyAISorting ran in relationship-links mode
RelationshipMode ==
  /\ refined
  /\ refineConfig.enabled
  /\ refineProvider
  /\ refineConfig.mode = "natural-language-links"

\* the adjacency of the local pattern-detection pass over baseResults
LocalLinks ==
  detectRelationshipsLocally(baseResults, refineConfig.fieldsToAnalyze,
                             findKeyField(baseResults))

\* the same records at the same places
SameOrder(returned, base) ==
  /\ Len(returned) = Len(base)
  /\ \A i \in 1..Len(base) :
       /\ returned[i].originalIndex = base[i].originalIndex
       /\ returned[i].row = base[i].row

\* C15: in relationship-links mode, when the classifier returns an empty
\* array and the local pattern-detection pass finds no link either,
\* applyAISorting returns the results in exactly the order of baseResults:
\* no record dropped, none duplicated, none moved.
C15_NoLinksKeepsBaseOrder ==
  (RelationshipMode /\ refineResponse.kind = "emptyArray" /\ LocalLinks = <<>>) =>
    SameOrder(refineOutcome.returned, baseResults)

\* the triple has no from or no to, or its confidence is below 0.5
Unusable(item) ==
  /\ ~item.isNull
  /\ \/ ~Truthy(item.from)
     \/ ~Truthy(item.to)
     \/ item.confidence.t # "num"
     \/ item.confidence.n < ConfidenceThreshold

\* the classifier's answer is an empty array or an array of unusable triples
ZeroUsableRelationships ==
  \/ refineResponse.kind = "emptyArray"
  \/ /\ refineResponse.kind = "array"
     /\ \A i \in 1..Len(refineResponse.items) : Unusable(refineResponse.items[i])

\* C16: in relationship-links mode, whenever the classifier's answer yields
\* no usable relationship (an empty array, or an array whose triples all
\* lack from/to or have a confidence below 0.5), the grouping is the one
\* computed from the adjacency of the local pattern-detection pass.
C16_LocalFallbackWhenNoneUsable ==
  (RelationshipMode /\ ZeroUsableRelationships) =>
    refineOutcome =
      CatchAll(NaturalLanguageLinksMode(baseResults, findKeyField(baseResults),
                                        [threw |-> FALSE, linkMap |-> LocalLinks]))

\* C17: in all three modes applyAISorting leaves the groupId and the
\* groupSize of every result as the deterministic LinkGroup rule set them
\* (also when it set none); it only adds aiGroupId and aiSimilarity.
C17_GroupFieldsUntouched ==
  refined =>
    \A k \in 1..Len(baseResults), p \in 1..Len(refineOutcome.returned) :
      refineOutcome.returned[p].originalIndex = baseResults[k].originalIndex =>
        /\ refineOutcome.returned[p].groupId = baseResults[k].groupId
        /\ refineOutcome.returned[p].groupSize = baseResults[k].groupSize

\* applyAISorting ran in fuzzy-matching mode
FuzzyMode ==
  /\ refined
  /\ refineConfig.enabled
  /\ refineProvider
  /\ refineConfig.mode = "fuzzy-matching"

\* the classifier's answer has an entry for the key of baseResults[i]
NamedByAnswer(i) ==
  /\ refineResponse.kind \in {"object", "array"}
  /\ \E e \in 1..Len(EntriesOf(refineResponse)) :
       EntriesOf(refineResponse)[e].key =
         TicketKey(baseResults[i], i - 1, findKeyField(baseResults))

\* C19: in fuzzy-matching mode, for every classifier response,
\* applyAISorting returns the results in exactly the order of baseResults
\* and sets no aiGroupId; the only change is the similarity marker on the
\* results the answer names.
C19_FuzzyOnlyMarks ==
  FuzzyMode =>
    /\ ~refineOutcome.rejected
    /\ Len(refineOutcome.returned) = Len(baseResults)
    /\ \A i \in 1..Len(baseResults) :
         IF NamedByAnswer(i)
         THEN refineOutcome.returned[i] = [baseResults[i] EXCEPT !.aiSimilarity = NumV(1)]
         ELSE refineOutcome.returned[i] = baseResults[i]

\* the answer named the second of three results and not the first
C19_Witness ==
  /\ FuzzyMode
  /\ Len(baseResults) = 3
  /\ refineOutcome.returned[1].aiSimilarity = NullV
  /\ refineOutcome.returned[2].aiSimilarity = NumV(1)

\* the triples of the classifier's answer that are kept: from and to
\* present, confidence at least 0.5
KeptRelationships ==
  {refineResponse.items[i] :
     i \in {k \in 1..Len(refineResponse.items) :
              /\ ~refineResponse.items[k].isNull
              /\ ~Unusable(refineResponse.items[k])}}

RECURSIVE ConnectedTo(_)
\* the values joined to a value of vs by a path of kept relationships, each
\* read in either direction
ConnectedTo(vs) ==
  LET step == vs \cup {rel.to : rel \in {r \in KeptRelationships : r.from \in vs}}
                 \cup {rel.from : rel \in {r \in KeptRelationships : r.to \in vs}}
  IN IF step = vs THEN vs ELSE ConnectedTo(step)

\* the key-field value of the result at position i of baseResults, as the
\* relationship-links mode reads it
BaseTicketKey(i) == StrV(TicketKey(baseResults[i], i - 1, findKeyField(baseResults)))

\* the relationship-links mode ran to its end on an array answer
RelationshipsApplied ==
  /\ RelationshipMode
  /\ refineResponse.kind = "array"
  /\ refineOutcome.caught = "none"

\* the results with the same aiGroupId are next to each other
Contiguous(returned) ==
  \A i, j, k \in 1..Len(returned) :
    (i < j /\ j < k /\ returned[i].aiGroupId = returned[k].aiGroupId) =>
      returned[j].aiGroupId = returned[i].aiGroupId

\* C24: in relationship-links mode two results get the same aiGroupId
\* exactly when their key-field values are connected by a path of kept
\* relationships (confidence >= 0.5, from and to present) read in either
\* direction, and in the returned list the results with the same aiGroupId
\* are contiguous.
C24_GroupsAreKeptComponents ==
  RelationshipsApplied =>
    /\ \A i, j \in 1..Len(baseResults) :
         (refineOutcome.results[i].aiGroupId = refineOutcome.results[j].aiGroupId)
           <=> (BaseTicketKey(j) \in ConnectedTo({BaseTicketKey(i)}))
    /\ Contiguous(refineOutcome.returned)

\* the semantic-clustering mode was applied to a cluster-name map
ClusteringMode ==
  /\ refined
  /\ refineConfig.enabled
  /\ refineProvider
  /\ refineConfig.mode = "semantic-clustering"
  /\ refineResponse.kind = "object"

\* the place in baseResults of the record of a result
BasePlace(result) ==
  CHOOSE k \in 1..Len(baseResults) : baseResults[k].originalIndex = result.originalIndex

\* C25: in semantic-clustering mode, for every cluster-name map the
\* classifier returns, every result without aiGroupId comes after every
\* result with one, the results with an aiGroupId are in the order of
\* their cluster names, and results with the same cluster name keep their
\* relative order from baseResults.
C25_ClusteredFirstInNameOrder ==
  ClusteringMode =>
    \A i, j \in 1..Len(refineOutcome.returned) :
      LET a == refineOutcome.returned[i]
          b == refineOutcome.returned[j]
      IN /\ (a.aiGroupId = NullV /\ b.aiGroupId # NullV) => j < i
         /\ (i < j /\ a.aiGroupId # NullV /\ b.aiGroupId # NullV) =>
              /\ localeCompare(String(a.aiGroupId), String(b.aiGroupId)) <= 0
              /\ a.aiGroupId = b.aiGroupId => BasePlace(a) < BasePlace(b)

\* C27: after a successful relationship-links refinement the groupSize of
\* every result equals the number of results of the returned list that
\* have its aiGroupId, also when the classifier names identifiers of no
\* record and when several records have the same key-field value.
C27_GroupSizeCountsGroupResults ==
  (RelationshipMode /\ refineOutcome.caught = "none") =>
    \A i \in 1..Len(refineOutcome.returned) :
      refineOutcome.returned[i].groupSize =
        NumV(Cardinality({j \in 1..Len(refineOutcome.returned) :
                            refineOutcome.returned[j].aiGroupId
                              = refineOutcome.returned[i].aiGroupId}))

\* ------------------------------------------------------------------------
\* The local pattern-detection pass of the relationship-links mode
\* ------------------------------------------------------------------------
\* a record whose text names itself, B-2 twice and Z-9, which is no
\* record's key; two records with the key B-2; a record nobody names
LocalRows ==
  {[Key |-> StrV(KeyA),
    Links |-> StrV(KeyA \o <<" ">> \o KeyB \o <<" ">> \o KeyB \o <<" ">> \o KeyZ)],
   [Key |-> StrV(KeyB), Links |-> NullV],
   [Key |-> StrV(KeyB), Links |-> StrV(KeyA)],
   [Key |-> StrV(KeyC), Links |-> NullV]}

LocalRowLists == UNION {[1..n -> LocalRows] : n \in 0..MaxRows}

LocalInit ==
  /\ baseResults \in {applySorting(rowList, [rules |-> <<>>]) : rowList \in LocalRowLists}
  /\ refined = FALSE
  /\ refineConfig = AISortConfig(FALSE, "natural-language-links")
  /\ refineProvider = FALSE
  /\ refineResponse = Response("blank", NoItems, NoEntries)
  /\ refineOutcome = Refinement(FALSE, baseResults, baseResults, "none")
  /\ SortParked
  /\ UIParked
  /\ TplParked

\* applyAISorting in relationship-links mode when the classifier's answer
\* is blank or the text []: detectRelationshipsLocally supplies the links
RefineLocally ==
  \E response \in {Response("blank", NoItems, NoEntries),
                   Response("emptyArray", NoItems, NoEntries)} :
    Refine(AISortConfig(TRUE, "natural-language-links"), TRUE, response, FALSE)

LocalNext == RefineLocally

LocalSpec == LocalInit /\ [][LocalNext]_vars

\* the local pattern-detection pass has run
LocalPassRan ==
  /\ RelationshipMode
  /\ refineResponse.kind \in {"blank", "emptyArray"}

LocalTicketId(i) == String(Field(baseResults[i].row, findKeyField(baseResults)))

\* the links the pass finds for the record at position i of baseResults
LocalLinksOf(i) ==
  LinksOfTicket(baseResults[i], refineConfig.fieldsToAnalyze, 1,
                ValidTicketIds(baseResults, findKeyField(baseResults)),
                LocalTicketId(i), <<>>)

\* C26: the local pattern-detection pass links a record only to
\* identifiers that equal the key-field value of another record of the
\* same input: never to the record's own identifier, never to an
\* identifier that no record has as key value, and never twice to the same
\* target; every entry of the adjacency is the list of such a record.
C26_LocalLinksNameOtherRecords ==
  LocalPassRan =>
    /\ \A i \in 1..Len(baseResults) :
         \A k \in 1..Len(LocalLinksOf(i)) :
           /\ LocalLinksOf(i)[k] # StrV(LocalTicketId(i))
           /\ \E j \in 1..Len(baseResults) :
                j # i /\ StrV(LocalTicketId(j)) = LocalLinksOf(i)[k]
           /\ \A m \in 1..Len(LocalLinksOf(i)) :
                m # k => LocalLinksOf(i)[m] # LocalLinksOf(i)[k]
    /\ \A e \in 1..Len(LocalLinks) :
         \E i \in 1..Len(baseResults) :
           /\ LocalLinks[e].from = StrV(LocalTicketId(i))
           /\ LocalLinks[e].to = LocalLinksOf(i)
           /\ Len(LocalLinksOf(i)) > 0

\* the pass ran on a record that names itself, another record twice and an
\* identifier of no record, and linked it to the other record only
C26_Witness ==
  /\ LocalPassRan
  /\ \E i \in 1..Len(baseResults) :
       /\ LocalTicketId(i) = KeyA
       /\ MatchAll(StringOrEmpty(Field(baseResults[i].row, "Links")), 1)
            = <<KeyA, KeyB, KeyB, KeyZ>>
       /\ LocalLinksOf(i) = <<StrV(KeyB)>>
       /\ \E e \in 1..Len(LocalLinks) : LocalLinks[e] = [from |-> StrV(KeyA), to |-> <<StrV(KeyB)>>]
       /\ \E j \in 1..Len(baseResults) :
            /\ j # i
            /\ refineOutcome.results[j].aiGroupId = refineOutcome.results[i].aiGroupId

\* ------------------------------------------------------------------------
\* CardDesigner.tsx, SortPanel.tsx, PrintView.tsx, App.tsx: the AI analysis
\* of the card designer
\* ------------------------------------------------------------------------
\* calls of handleRunAIAnalysis that reach applyAISorting
MaxRuns == 2

\* sortConfig.aiSort is undefined
NoAISort == [present |-> FALSE, enabled |-> FALSE, mode |-> "", fieldsToAnalyze |-> <<>>]

AISort(mode) ==
  [present |-> TRUE, enabled |-> TRUE, mode |-> mode, fieldsToAnalyze |-> <<"Links">>]

SortConfig(rules, aiSort) == [rules |-> rules, aiSort |-> aiSort]

SortConfigs ==
  {SortConfig(<<>>, NoAISort),
   SortConfig(<<>>, AISort("semantic-clustering")),
   SortConfig(<<LinkedRule(NoSimple)>>, AISort("natural-language-links"))}

TicketRow(key, links) == [Key |-> key, Links |-> links]

\* the record lists the issue selector hands over
SelectedRowLists ==
  {<<TicketRow(StrV(KeyA), NullV), TicketRow(StrV(KeyB), NullV)>>}

\* the texts the field processor writes into a field
ProcessedValues == {StrV(KeyA)}

\* the answers of the classifier to an analysis
AnalysisResponses ==
  {Response("throw", NoItems, NoEntries),
   Response("object", NoItems, <<Entry(KeyA, StrV(ClusterUi)), Entry(KeyB, StrV(ClusterDb))>>)}

\* the value of aiSortedResults: null, or an array of results
NoResults == [isNull |-> TRUE, results |-> <<>>]

Stored(results) == [isNull |-> FALSE, results |-> results]

\* { isRunning, error?, lastRun? }: error tells that a message is set,
\* lastRun is 0 when it is not set
AnalysisState(isRunning, error, lastRun) ==
  [isRunning |-> isRunning, error |-> error, lastRun |-> lastRun]

\* useState({ isRunning: false })
Idle == AnalysisState(FALSE, FALSE, 0)

\* a call of applyAISorting that has not returned: the rows and sortConfig
\* of the render whose handler started it, and whether the CardDesigner
\* instance of that render is still mounted
Request(run, rowsThen, sortConfigThen, mounted) ==
  [run |-> run, rows |-> rowsThen, sortConfig |-> sortConfigThen, mounted |-> mounted]

Origin(run, rowsThen, sortConfigThen) ==
  [run |-> run, rows |-> rowsThen, sortConfig |-> sortConfigThen]

NoOrigin == Origin(0, <<>>, SortConfig(<<>>, NoAISort))

\* useEffect(() => { setAISortedResults(null); setAIAnalysisState({
\* isRunning: false }) }, [rows, sortConfig]): runs when CardDesigner mounts
\* and after every render in which rows or sortConfig is a new object
ResetAIAnalysis ==
  /\ aiSortedResults' = NoResults
  /\ aiAnalysisState' = Idle
  /\ resultOrigin' = NoOrigin

\* PrintView.sortedResults
sortedResults ==
  IF ~aiSortedResults.isNull /\ Len(aiSortedResults.results) > 0
  THEN aiSortedResults.results
  ELSE applySorting(rows, sortConfig)

\* data has been selected, App shows the design tab, CardDesigner is mounted
UIInit ==
  /\ rows \in SelectedRowLists
  /\ sortConfig \in SortConfigs
  /\ aiSortedResults = NoResults
  /\ aiProvider \in BOOLEAN
  /\ currentTab = "design"
  /\ aiAnalysisState = Idle
  /\ inflight = {}
  /\ runs = 0
  /\ finished = 0
  /\ resultOrigin = NoOrigin
  /\ discovering = {}
  /\ SortParked
  /\ AIParked
  /\ TplParked

\* CardDesigner.handleRunAIAnalysis up to its await; the Run AI Analysis
\* button of SortPanel is disabled while aiAnalysisState.isRunning
handleRunAIAnalysis ==
  /\ currentTab = "design"
  /\ ~aiAnalysisState.isRunning
  /\ runs < MaxRuns
  /\ IF ~sortConfig.aiSort.present \/ ~aiProvider
     THEN UNCHANGED <<aiAnalysisState, inflight, runs>>
     ELSE /\ aiAnalysisState' = AnalysisState(TRUE, FALSE, 0)
          /\ inflight' = inflight \cup {Request(runs + 1, rows, sortConfig, TRUE)}
          /\ runs' = runs + 1
  /\ UNCHANGED <<rows, sortConfig, aiSortedResults, aiProvider, currentTab, finished,
                 resultOrigin, discovering, sortVars, aiVars, tplVars>>

\* CardDesigner.handleRunAIAnalysis after its await: applyAISorting returns
\* for the request. setAISortedResults writes to the store; the state
\* setter of an unmounted CardDesigner instance does nothing.
AnalysisReturns(request, outcome) ==
  /\ inflight' = inflight \ {request}
  /\ finished' = finished + 1
  /\ IF outcome.rejected
     THEN /\ aiAnalysisState' =
               IF request.mounted THEN AnalysisState(FALSE, TRUE, 0) ELSE aiAnalysisState
          /\ UNCHANGED <<aiSortedResults, resultOrigin>>
     ELSE /\ aiSortedResults' = Stored(outcome.returned)
          /\ resultOrigin' = Origin(request.run, request.rows, request.sortConfig)
          /\ aiAnalysisState' =
               IF request.mounted
               THEN AnalysisState(FALSE, FALSE, finished + 1)
               ELSE aiAnalysisState
  /\ UNCHANGED <<rows, sortConfig, aiProvider, currentTab, runs, discovering, sortVars, aiVars, tplVars>>

\* every tag of AnalysisResponses is a string: the comparator does not throw
classifierResponds ==
  \E request \in inflight, response \in AnalysisResponses :
    AnalysisReturns(request,
      applyAISorting(applySorting(request.rows, request.sortConfig),
                     request.sortConfig.aiSort, TRUE, response, FALSE))

\* SortPanel.onConfigChange = setSortConfig, then the effect of the render
setSortConfig ==
  /\ currentTab = "design"
  /\ \E config \in SortConfigs : sortConfig' = config
  /\ ResetAIAnalysis
  /\ UNCHANGED <<rows, aiProvider, currentTab, inflight, runs, finished, discovering, sortVars, aiVars, tplVars>>

\* AIFieldProcessor: updateRowField(index, targetFieldName, processed) on
\* the ai tab, where CardDesigner is not mounted
updateRowField ==
  /\ currentTab = "ai"
  /\ \E index \in 1..Len(rows), value \in ProcessedValues :
       rows' = [rows EXCEPT ![index].Links = value]
  /\ UNCHANGED <<sortConfig, aiSortedResults, aiProvider, currentTab, aiAnalysisState,
                 inflight, runs, finished, resultOrigin, discovering, sortVars, aiVars, tplVars>>

\* App.handleIssuesSelected: setData, then the design tab, whose
\* CardDesigner mounts and runs its effect
handleIssuesSelected ==
  /\ currentTab = "select"
  /\ \E selectedRows \in SelectedRowLists : rows' = selectedRows
  /\ currentTab' = "design"
  /\ ResetAIAnalysis
  /\ UNCHANGED <<sortConfig, aiProvider, inflight, runs, finished, discovering, sortVars, aiVars, tplVars>>

\* every request's CardDesigner instance is gone
Unmounted(requests) ==
  {Request(r.run, r.rows, r.sortConfig, FALSE) : r \in requests}

\* a tab button of App: entering the design tab mounts CardDesigner, which
\* runs its effect; leaving it unmounts CardDesigner and its state
setCurrentTab ==
  /\ \E tab \in {"select", "design", "ai", "print"} :
       /\ tab # currentTab
       /\ currentTab' = tab
  /\ IF currentTab' = "design"
     THEN ResetAIAnalysis /\ UNCHANGED inflight
     ELSE IF currentTab = "design"
     THEN /\ aiAnalysisState' = Idle
          /\ inflight' = Unmounted(inflight)
          /\ UNCHANGED <<aiSortedResults, resultOrigin>>
     ELSE UNCHANGED <<aiSortedResults, aiAnalysisState, inflight, resultOrigin>>
  /\ UNCHANGED <<rows, sortConfig, aiProvider, runs, finished, discovering, sortVars, aiVars, tplVars>>

UINext ==
  \/ handleRunAIAnalysis
  \/ classifierResponds
  \/ setSortConfig
  \/ updateRowField
  \/ handleIssuesSelected
  \/ setCurrentTab

UISpec == UIInit /\ [][UINext]_vars

\* the stored AI result came from a call on the rows and sortConfig of now
OriginIsCurrent ==
  /\ resultOrigin.rows = rows
  /\ resultOrigin.sortConfig = sortConfig

\* C1: a non-null aiSortedResults was computed from the current rows and the
\* current sortConfig; the answer to a call that was in flight when rows or
\* sortConfig changed is neither stored nor shown by PrintView.
C1_StoredResultIsCurrent ==
  /\ ~aiSortedResults.isNull => OriginIsCurrent
  /\ (currentTab = "print" /\ ~OriginIsCurrent) =>
       sortedResults = applySorting(rows, sortConfig)

\* C2: every step that changes rows or sortConfig leaves the AI analysis
\* state idle (isRunning = false, no error, no lastRun) and aiSortedResults
\* null, whatever the state of the analysis before the step.
C2_ChangeResetsAnalysis ==
  [][(rows' # rows \/ sortConfig' # sortConfig) =>
       (aiSortedResults'.isNull /\ aiAnalysisState' = Idle)]_vars

\* C3: once no call of applyAISorting is in flight, a stored AI result is
\* the result of the call that was started last, in whichever order the
\* answers to overlapping calls arrived.
C3_LastStartedWins ==
  (inflight = {} /\ ~aiSortedResults.isNull) => resultOrigin.run = runs

\* the classifier call of every request in flight eventually resolves or
\* rejects
UILiveSpec == UISpec /\ WF_vars(classifierResponds)

\* the classifier call of the request rejects
ClassifierRejects(request) ==
  AnalysisReturns(request,
    applyAISorting(applySorting(request.rows, request.sortConfig),
                   request.sortConfig.aiSort, TRUE, Response("throw", NoItems, NoEntries),
                   FALSE))

\* the classifier call of the request resolves with an answer
ClassifierResolves(request) ==
  \E response \in AnalysisResponses :
    /\ response.kind # "throw"
    /\ AnalysisReturns(request,
         applyAISorting(applySorting(request.rows, request.sortConfig),
                        request.sortConfig.aiSort, TRUE, response, FALSE))

\* an analysis that is running stops running
RunningEnds == aiAnalysisState.isRunning ~> ~aiAnalysisState.isRunning

\* the fairness condition of UILiveSpec without ENABLED: classifierResponds
\* is enabled exactly when a call is in flight, and its steps are the steps
\* that add one to finished
ClassifierAnswers == <>[](inflight # {}) => []<><<finished' = finished + 1>>_vars

\* under that condition a running analysis stops running (a property of
\* UISpec)
RunningEndsWhenAnswered == ClassifierAnswers => RunningEnds

\* isRunning is not left true when nothing is in flight
IdleWhenNothingInFlight == [](inflight = {} => ~aiAnalysisState.isRunning)

\* the analysis of a mounted CardDesigner ends with lastRun when the
\* classifier call resolved, and with error when it rejected
CompletionIsReported ==
  [][\A request \in inflight :
       request.mounted =>
         /\ ClassifierResolves(request) =>
              /\ ~aiAnalysisState'.isRunning
              /\ aiAnalysisState'.lastRun # 0
         /\ ClassifierRejects(request) =>
              /\ ~aiAnalysisState'.isRunning
              /\ aiAnalysisState'.error]_vars

\* C29: every AI analysis started by handleRunAIAnalysis eventually leaves
\* the running state, given that the classifier call eventually resolves or
\* rejects: isRunning becomes false again, with lastRun set when the call
\* completed and with error set when it threw, and isRunning is never left
\* true once no refinement is in flight.
C29_AnalysisLeavesRunning ==
  /\ RunningEnds
  /\ IdleWhenNothingInFlight
  /\ CompletionIsReported

\* ------------------------------------------------------------------------
\* SortPanel.tsx: strategy discovery
\* ------------------------------------------------------------------------
\* the strategies analyzeGroupingOpportunities answers with
FoundStrategies == <<"by-epic">>

\* config.aiSort with the suggestedStrategies of a discovery (<<>> when the
\* property is not set)
DiscoveryAISort(enabled, mode, strategies) ==
  [present |-> TRUE, enabled |-> enabled, mode |-> mode, fieldsToAnalyze |-> <<"Links">>,
   suggestedStrategies |-> strategies]

AISortModes == {"natural-language-links", "semantic-clustering", "fuzzy-matching"}

\* CardDesigner is mounted with two sort rules and AI sorting switched on
DiscoveryInit ==
  /\ rows \in SelectedRowLists
  /\ sortConfig = SortConfig(<<LinkedRule(NoSimple), SimpleRule("Key", "asc", FALSE)>>,
                             DiscoveryAISort(TRUE, "natural-language-links", <<>>))
  /\ aiSortedResults = NoResults
  /\ aiProvider = TRUE
  /\ currentTab = "design"
  /\ aiAnalysisState = Idle
  /\ inflight = {}
  /\ runs = 0
  /\ finished = 0
  /\ resultOrigin = NoOrigin
  /\ discovering = {}
  /\ SortParked
  /\ AIParked
  /\ TplParked

\* onConfigChange(config) of SortPanel, which is setSortConfig, then the
\* effect of the render of CardDesigner
onConfigChange(config) ==
  /\ sortConfig' = config
  /\ ResetAIAnalysis
  /\ UNCHANGED <<rows, aiProvider, currentTab, inflight, runs, finished,
                 sortVars, aiVars, tplVars>>

\* SortPanel.handleToggleAI
handleToggleAI ==
  /\ IF ~sortConfig.aiSort.present
     THEN onConfigChange([sortConfig EXCEPT
            !.aiSort = DiscoveryAISort(TRUE, "natural-language-links", <<>>)])
     ELSE onConfigChange([sortConfig EXCEPT !.aiSort.enabled = ~@])
  /\ UNCHANGED discovering

\* SortPanel.handleUpdateAIConfig({ mode }) from the mode buttons
handleUpdateAIConfig ==
  /\ sortConfig.aiSort.present
  /\ \E mode \in AISortModes :
       onConfigChange([sortConfig EXCEPT !.aiSort.mode = mode])
  /\ UNCHANGED discovering

\* SortPanel.handleDeleteRule(ruleId)
handleDeleteRule ==
  /\ \E k \in 1..Len(sortConfig.rules) :
       onConfigChange([sortConfig EXCEPT
         !.rules = [i \in 1..(Len(@) - 1) |-> IF i < k THEN @[i] ELSE @[i + 1]]])
  /\ UNCHANGED discovering

\* SortPanel.handleDiscoverStrategies up to its await; the button is
\* disabled while discoveringStrategies and when there are no rows
handleDiscoverStrategies ==
  /\ sortConfig.aiSort.present
  /\ discovering = {}
  /\ Len(rows) > 0
  /\ discovering' = {[config |-> sortConfig]}
  /\ UNCHANGED <<rows, sortConfig, aiSortedResults, aiProvider, currentTab, aiAnalysisState,
                 inflight, runs, finished, resultOrigin, sortVars, aiVars, tplVars>>

\* SortPanel.handleDiscoverStrategies after its await, the call resolved:
\* handleUpdateAIConfig of the render that started the discovery spreads
\* the config of that render
strategiesResolve ==
  /\ \E discovery \in discovering :
       /\ onConfigChange([discovery.config EXCEPT
                            !.aiSort.suggestedStrategies = FoundStrategies])
       /\ discovering' = discovering \ {discovery}

\* SortPanel.handleDiscoverStrategies after its await, the call rejected
strategiesReject ==
  /\ \E discovery \in discovering : discovering' = discovering \ {discovery}
  /\ UNCHANGED <<rows, sortConfig, aiSortedResults, aiProvider, currentTab, aiAnalysisState,
                 inflight, runs, finished, resultOrigin, sortVars, aiVars, tplVars>>

DiscoveryNext ==
  \/ handleToggleAI
  \/ handleUpdateAIConfig
  \/ handleDeleteRule
  \/ handleDiscoverStrategies
  \/ strategiesResolve
  \/ strategiesReject

\* the sort panel while a strategy discovery may be in flight
DiscoverySpec == DiscoveryInit /\ [][DiscoveryNext]_vars

\* the sort configuration but for aiSort.suggestedStrategies
WithoutSuggestions(config) ==
  [rules |-> config.rules,
   aiSort |-> [present |-> config.aiSort.present, enabled |-> config.aiSort.enabled,
               mode |-> config.aiSort.mode,
               fieldsToAnalyze |-> config.aiSort.fieldsToAnalyze]]

\* C30: the step in which a strategy discovery completes changes nothing
\* of the sort configuration but aiSort.suggestedStrategies: the sort rules
\* and AI settings the user changed while the request was in flight are
\* still present afterwards.
C30_DiscoveryKeepsUserChanges ==
  [][(discovering # {} /\ discovering' = {}) =>
       WithoutSuggestions(sortConfig') = WithoutSuggestions(sortConfig)]_vars

\* ------------------------------------------------------------------------
\* templateStore.ts: sort configurations in saved templates
\* ------------------------------------------------------------------------
MaxTemplates == 2

\* a RegExp object
RegExp(source, flags) == [source |-> source, flags |-> flags]

\* a JavaScript string where a RegExp is expected
SourceText(text) == [text |-> text]

IsSourceText(pattern) == DOMAIN pattern = {"text"}

\* the object {} that JSON.parse returns for a stringified RegExp
EmptyObject == [object |-> TRUE]

IsEmptyObject(pattern) == DOMAIN pattern = {"object"}

\* String({})
ObjectObjectText == "[object Object]"

\* new RegExp(pattern, flags) for a pattern that is a string, a RegExp or
\* another object, which is converted to a string
NewRegExp(pattern, flags) ==
  IF IsSourceText(pattern)
  THEN RegExp(IF pattern.text = "" THEN EmptyPatternSource ELSE pattern.text, flags)
  ELSE IF IsEmptyObject(pattern) THEN RegExp(ObjectObjectText, flags)
  ELSE RegExp(pattern.source, flags)

\* saveTemplate was called without sortConfig
UndefinedConfig == [undefined |-> TRUE]

IsUndefined(config) == DOMAIN config = {"undefined"}

SerializeRule(rule) ==
  IF rule.linkedIssues.present
  THEN [rule EXCEPT !.linkedIssues.issueKeyPattern = SourceText(@.source)]
  ELSE rule

\* Helper to serialize RegExp patterns for storage
serializeSortConfig(config) ==
  IF IsUndefined(config) THEN config
  ELSE [config EXCEPT !.rules = [i \in 1..Len(config.rules) |-> SerializeRule(config.rules[i])]]

\* new RegExp(rule.linkedIssues.issueKeyPattern) without the flags argument
DeserializeRule_NoFlags(rule) ==
  IF rule.linkedIssues.present
  THEN [rule EXCEPT !.linkedIssues.issueKeyPattern = NewRegExp(@, "")]
  ELSE rule

DeserializeRule(rule) ==
  IF rule.linkedIssues.present
  THEN [rule EXCEPT !.linkedIssues.issueKeyPattern = NewRegExp(@, "g")]
  ELSE rule

\* Helper to deserialize RegExp patterns from storage
deserializeSortConfig(config) ==
  IF IsUndefined(config) THEN config
  ELSE [config EXCEPT !.rules = [i \in 1..Len(config.rules) |-> DeserializeRule(config.rules[i])]]

\* a LinkGroup rule whose pattern the user replaced in the pattern input
LinkedRuleWithPattern(sortWithinGroups, text) ==
  [LinkedRule(sortWithinGroups) EXCEPT !.linkedIssues.issueKeyPattern = NewRegExp(SourceText(text), "g")]

\* the sort configurations of the card designer when a template is saved
TemplateSortConfigs ==
  {UndefinedConfig,
   SortConfig(<<>>, NoAISort),
   SortConfig(<<LinkedRule(NoSimple)>>, NoAISort),
   SortConfig(<<SimpleRule("Key", "desc", TRUE),
                LinkedRuleWithPattern([present |-> TRUE, field |-> "Key", direction |-> "desc",
                                       numeric |-> FALSE], "")>>,
              AISort("semantic-clustering"))}

\* exportAll has not been called
NoExport == [present |-> FALSE, templates |-> <<>>]

\* loadTemplate returned null, or has not been called
NoTemplate == [found |-> FALSE, id |-> 0, sortConfig |-> UndefinedConfig]

TemplateInit ==
  /\ templates = <<>>
  /\ savedSortConfigs = <<>>
  /\ loadedTemplate = NoTemplate
  /\ exported = NoExport
  /\ SortParked
  /\ AIParked
  /\ UIParked

\* saveTemplate(name, mappings, layouts, styles, cardBgRules, sortConfig);
\* the generated id is the number of the call
saveTemplate ==
  /\ Len(savedSortConfigs) < MaxTemplates
  /\ \E config \in TemplateSortConfigs :
       /\ templates' = Append(templates, [id |-> Len(savedSortConfigs) + 1,
                                          sortConfig |-> serializeSortConfig(config)])
       /\ savedSortConfigs' = Append(savedSortConfigs, config)
  /\ UNCHANGED <<loadedTemplate, exported, sortVars, aiVars, uiVars>>

\* loadTemplate(id)
loadTemplate ==
  /\ \E id \in 1..MaxTemplates :
       LET WithId(t) == t.id = id
           found == SelectSeq(templates, WithId)
       IN loadedTemplate' =
            IF Len(found) = 0 THEN NoTemplate
            ELSE [found |-> TRUE, id |-> id,
                  sortConfig |-> deserializeSortConfig(found[1].sortConfig)]
  /\ UNCHANGED <<templates, savedSortConfigs, exported, sortVars, aiVars, uiVars>>

\* deleteTemplate(id)
deleteTemplate ==
  /\ \E id \in 1..Len(savedSortConfigs) :
       LET Others(t) == t.id # id
       IN /\ \E i \in 1..Len(templates) : templates[i].id = id
          /\ templates' = SelectSeq(templates, Others)
  /\ UNCHANGED <<savedSortConfigs, loadedTemplate, exported, sortVars, aiVars, uiVars>>

TemplateNext == saveTemplate \/ loadTemplate \/ deleteTemplate

TemplateSpec == TemplateInit /\ [][TemplateNext]_vars

\* the values of a key or links field that identifiers are extracted from
ExtractionSamples == {NullV, StrV(KeyA), StrV(KeyB \o <<" ">> \o KeyC), NumV(0)}

\* the pattern of a LinkGroup rule came back with the same source and the
\* global flag, and extracts the same identifiers
SamePattern(loaded, saved) ==
  /\ ~IsSourceText(loaded)
  /\ loaded.source = saved.source
  /\ loaded.flags \in {"g", "gi", "gm"}
  /\ \A value \in ExtractionSamples :
       extractIssueKeys(value, loaded) = extractIssueKeys(value, saved)

\* the rule came back unchanged but for its pattern
SameRule(loaded, saved) ==
  /\ saved.linkedIssues.present =>
       SamePattern(loaded.linkedIssues.issueKeyPattern, saved.linkedIssues.issueKeyPattern)
  /\ [loaded EXCEPT !.linkedIssues.issueKeyPattern = saved.linkedIssues.issueKeyPattern] = saved

\* C18: saving a sort configuration in a template and loading it back
\* returns, for every LinkGroup rule, an identifier pattern with the same
\* source string and the global flag, all other fields of the configuration
\* unchanged, so that extraction with the loaded pattern returns the same
\* identifier lists as with the saved one.
C18_TemplateRoundTrip ==
  loadedTemplate.found =>
    LET saved == savedSortConfigs[loadedTemplate.id]
        loaded == loadedTemplate.sortConfig
    IN IF IsUndefined(saved) THEN IsUndefined(loaded)
       ELSE /\ ~IsUndefined(loaded)
            /\ Len(loaded.rules) = Len(saved.rules)
            /\ \A i \in 1..Len(saved.rules) : SameRule(loaded.rules[i], saved.rules[i])
            /\ [loaded EXCEPT !.rules = saved.rules] = saved

\* the second of two saved templates was loaded; its configuration has a
\* Simple rule and a LinkGroup rule with a pattern the user typed
C18_Witness ==
  /\ loadedTemplate.found
  /\ loadedTemplate.id = 2
  /\ ~IsUndefined(loadedTemplate.sortConfig)
  /\ Len(loadedTemplate.sortConfig.rules) = 2
  /\ loadedTemplate.sortConfig.rules[2].linkedIssues.issueKeyPattern.source = EmptyPatternSource

\* ------------------------------------------------------------------------
\* templateStore.ts: export, import and the persisted copy of the store
\* ------------------------------------------------------------------------
\* JSON.parse(JSON.stringify(pattern)): a string stays, a RegExp has no
\* enumerable property and becomes {}
JsonPattern(pattern) == IF IsSourceText(pattern) THEN pattern ELSE EmptyObject

JsonRule(rule) ==
  IF rule.linkedIssues.present
  THEN [rule EXCEPT !.linkedIssues.issueKeyPattern = JsonPattern(@)]
  ELSE rule

JsonSortConfig(config) ==
  IF IsUndefined(config) THEN config
  ELSE [config EXCEPT !.rules = [i \in 1..Len(config.rules) |-> JsonRule(config.rules[i])]]

\* the templates of the store after JSON.stringify and JSON.parse
JsonTemplates(stored) ==
  [i \in 1..Len(stored) |-> [stored[i] EXCEPT !.sortConfig = JsonSortConfig(@)]]

\* exportAll(): JSON.stringify({ templates, savedEnrichments }, null, 2)
exportAll ==
  /\ exported' = [present |-> TRUE, templates |-> JsonTemplates(templates)]
  /\ UNCHANGED <<templates, savedSortConfigs, loadedTemplate, sortVars, aiVars, uiVars>>

\* importAll(json) with a document that exportAll produced
importAll ==
  /\ exported.present
  /\ templates' = [i \in 1..Len(exported.templates) |->
                     [exported.templates[i] EXCEPT
                        !.sortConfig = deserializeSortConfig(@)]]
  /\ UNCHANGED <<savedSortConfigs, loadedTemplate, exported, sortVars, aiVars, uiVars>>

\* the page is loaded again: persist restores the store from the JSON text
\* it wrote to localStorage under 'tickets-templates' at the last set
rehydrate ==
  /\ templates' = JsonTemplates(templates)
  /\ UNCHANGED <<savedSortConfigs, loadedTemplate, exported, sortVars, aiVars, uiVars>>

ImportNext == saveTemplate \/ loadTemplate \/ exportAll \/ importAll \/ rehydrate

\* the template store under save, load, export, import and reload
ImportSpec == TemplateInit /\ [][ImportNext]_vars

\* the pattern is the source string, or a RegExp with the source
YieldsSource(pattern, source) ==
  \/ IsSourceText(pattern) /\ pattern.text = source
  \/ DOMAIN pattern = {"source", "flags"} /\ pattern.source = source

\* every LinkGroup rule of config has the pattern source of the
\* configuration that saveTemplate was given under the id
KeepsSources(config, id) ==
  /\ IsUndefined(config) <=> IsUndefined(savedSortConfigs[id])
  /\ ~IsUndefined(config) =>
       /\ Len(config.rules) = Len(savedSortConfigs[id].rules)
       /\ \A i \in 1..Len(config.rules) :
            savedSortConfigs[id].rules[i].linkedIssues.present =>
              YieldsSource(config.rules[i].linkedIssues.issueKeyPattern,
                           savedSortConfigs[id].rules[i].linkedIssues.issueKeyPattern.source)

\* every pattern of the exported document is a source string
ExportsSourceText(config) ==
  ~IsUndefined(config) =>
    \A i \in 1..Len(config.rules) :
      config.rules[i].linkedIssues.present =>
        IsSourceText(config.rules[i].linkedIssues.issueKeyPattern)

\* C28: after any sequence of saveTemplate, importAll, exportAll and
\* loadTemplate (and reloads of the persisted store) every LinkGroup rule of
\* every stored template yields its original pattern source, exportAll
\* emits every pattern as its source string, and loadTemplate returns the
\* original pattern.
C28_PatternSurvivesStore ==
  /\ \A t \in 1..Len(templates) : KeepsSources(templates[t].sortConfig, templates[t].id)
  /\ \A t \in 1..Len(exported.templates) :
       /\ KeepsSources(exported.templates[t].sortConfig, exported.templates[t].id)
       /\ ExportsSourceText(exported.templates[t].sortConfig)
  /\ loadedTemplate.found => KeepsSources(loadedTemplate.sortConfig, loadedTemplate.id)

====
